---------------------------- MODULE Spec2Model ----------------------------
(***************************************************************************)
(* A model of eliac7/cargr-api: the filter cache with stale fallback       *)
(* (src/cache.py), its producer get_available_filters                      *)
(* (src/filter_parser.py), the retrying fetch (src/http_client.py), the    *)
(* numeric coercions (src/utils.py) and the field parsers of a listing     *)
(* (src/field_parsers.py, src/car_parser.py).                              *)
(*                                                                         *)
(* Spec         : threads calling get / warm / clear on one                *)
(*                FilterCacheService, the producer and the passage of time.*)
(* SpecFetch    : one call of fetch_with_retry against an upstream whose   *)
(*                answer to each attempt is chosen freely.                 *)
(* SpecCoerce   : safe_int / safe_float applied to an argument.            *)
(* SpecParse    : one field of a listing resolved from a document.         *)
(* SpecClassify : one pass of get_filters over a search page.              *)
(***************************************************************************)
EXTENDS Integers, Sequences, FiniteSets, TLC

(***************************************************************************)
(* Bounds of the model.                                                    *)
(***************************************************************************)
\* longest string given to safe_int / safe_float
MaxStrLen == 3

\* number of select controls on the search page
MaxSelects == 2

\* number of threads that use the one cache instance
NumThreads == 2

\* number of operations (get, warm, clear) the threads start in one run
MaxOps == 3

\* lifetime of a cache entry in clock ticks (the ttl given to TTLCache)
Ttl == 1

Threads == 1..NumThreads

(***************************************************************************)
(* Program constants (src/config.py).                                      *)
(***************************************************************************)
MaxRetries == 3

RetryBaseDelay == 2

RateLimitDelayLo == 5

RateLimitDelayHi == 10

ExceptDelay == 1

\* the statuses the upstream answers with in the model
Statuses == {200, 404, 429, 500}

VARIABLES
    \* ---- FilterCacheService (src/cache.py) ----
    entryVal,       \* self._cache["filters"]: the stored catalog, None if no item
    ttlLeft,        \* ticks until the stored item expires (expires - timer())
    staleData,      \* self._stale_data
    lockOwner,      \* holder of self._lock, 0 when free
    pc,             \* per thread: where it is in its operation
    op,             \* per thread: "get", "warm", "clear" or "none"
    force,          \* per thread: the force_refresh argument of its get()
    fresh,          \* per thread: the local fresh_data of _fetch_and_cache
    callNo,         \* per thread: the number of the producer call it made
    outcome,        \* per thread: how its producer call ended, "none" if none
    missWhy,        \* per thread: why its get() did not hit the cache
    ret,            \* per thread: what get() / clear() gave its caller
    warmRet,        \* per thread: what warm() returned
    producerCalls,  \* number of calls of self._fetcher so far
    opsStarted,     \* number of operations started so far
    lastGood,       \* history: result of the latest producer call that returned
    produced,       \* history: every catalog a producer call returned
    \* ---- fetch_with_retry (src/http_client.py) ----
    fPc,            \* position in fetch_with_retry
    fAttempt,       \* the loop variable attempt
    fOutcomes,      \* history: the upstream's answer to each session.get
    fSleeps,        \* history: every time.sleep, in order
    fError,         \* the exception being handled / raised
    fResult,        \* the response returned
    \* ---- safe_int / safe_float (src/utils.py) ----
    cIn,            \* the argument val
    cFn,            \* the function called: "safe_int", "safe_float" or "none"
    cOut,           \* what it returned (or the exception that escaped)
    \* ---- CarListingParser and the field parsers (src/car_parser.py) ----
    field,          \* the field being resolved
    json_data,      \* self.json_data: the JSON-LD mapping of the page
    meta,           \* self.meta: what the field's pattern finds in the text
    soup,           \* self.soup: what the field's DOM lookups find
    parsed,         \* what the resolution gave its caller
    parsePc,        \* "ready" before the resolution, "done" after it
    \* ---- FilterDiscoveryParser.get_filters (src/filter_parser.py) ----
    page,           \* self.soup: the selects, button containers and checkboxes
    filters,        \* the local filters: category key to FilterDefinition
    clsPc,          \* the part of get_filters being run
    clsIdx          \* the round of that part's loop

cacheVars == <<entryVal, ttlLeft, staleData, lockOwner, pc, op, force, fresh,
               callNo, outcome, missWhy, ret, warmRet, producerCalls,
               opsStarted, lastGood, produced>>

fetchVars == <<fPc, fAttempt, fOutcomes, fSleeps, fError, fResult>>

coerceVars == <<cIn, cFn, cOut>>

parseVars == <<field, json_data, meta, soup, parsed, parsePc>>

classifyVars == <<page, filters, clsPc, clsIdx>>

vars == <<cacheVars, fetchVars, coerceVars, parseVars, classifyVars>>

\* what the operations of each component leave alone
notCache == <<fetchVars, coerceVars, parseVars, classifyVars>>

notFetch == <<cacheVars, coerceVars, parseVars, classifyVars>>

notCoerce == <<cacheVars, fetchVars, parseVars, classifyVars>>

notParse == <<cacheVars, fetchVars, coerceVars, classifyVars>>

notClassify == <<cacheVars, fetchVars, coerceVars, parseVars>>

(***************************************************************************)
(* Values.                                                                 *)
(***************************************************************************)
\* Python's None where a catalog is expected
None == [call |-> 0, filters |-> {}]

NoResult == [kind |-> "none", val |-> None, exc |-> "none"]

Return(v) == [kind |-> "return", val |-> v, exc |-> "none"]

Raise(e) == [kind |-> "raise", val |-> None, exc |-> e]

(***************************************************************************)
(* The producer: get_available_filters (src/filter_parser.py).             *)
(***************************************************************************)
\* the categories get_filters always emits
RangeKeys == {"price", "registration", "mileage", "engine_size", "engine_power"}

\* the categories found in the controls of a fetched search page
PageKeys == {"fuel_type", "make", "gearbox_type", "feature"}

\* _fetch_page: the page text, or "" when session.get / raise_for_status fails
fetch_page(upstream) == IF upstream = "ok" THEN "html" ELSE ""

\* get_filters over the parsed page: the classified controls plus the ranges
get_filters(html) == (IF html = "html" THEN PageKeys ELSE {}) \cup RangeKeys

\* get_available_filters(): a new dict per call
get_available_filters(n, upstream) ==
    [call |-> n, filters |-> get_filters(fetch_page(upstream))]

\* how a call of self._fetcher can end: the page is fetched and classified,
\* the page fetch fails inside _fetch_page, or the fetcher raises
FetcherOutcomes == {"ok", "page_fetch_fails", "raises"}

(***************************************************************************)
(* FilterCacheService.                                                     *)
(***************************************************************************)
\* _FILTER_CACHE_KEY in self._cache (TTLCache.__contains__)
KeyInCache == entryVal # None /\ ttlLeft > 0

\* the condition of line 28
CacheHitNever(t) == FALSE

CacheHit(t) == ~force[t] /\ KeyInCache

\* RLock: free, or already held by the same thread
LockFreeAlways(t) == TRUE

LockFree(t) == lockOwner = 0 \/ lockOwner = t

CacheInit ==
    /\ entryVal = None
    /\ ttlLeft = 0
    /\ staleData = None
    /\ lockOwner = 0
    /\ pc = [t \in Threads |-> "idle"]
    /\ op = [t \in Threads |-> "none"]
    /\ force = [t \in Threads |-> FALSE]
    /\ fresh = [t \in Threads |-> None]
    /\ callNo = [t \in Threads |-> 0]
    /\ outcome = [t \in Threads |-> "none"]
    /\ missWhy = [t \in Threads |-> "none"]
    /\ ret = [t \in Threads |-> NoResult]
    /\ warmRet = [t \in Threads |-> "none"]
    /\ producerCalls = 0
    /\ opsStarted = 0
    /\ lastGood = None
    /\ produced = {}

\* warm(): True when get() returned, False when it raised (lines 55-61)
WarmResult(r) == IF r.kind = "raise" THEN "False" ELSE "True"

\* the operation of thread t ends giving r: its locals are gone and the
\* with-block releases the lock
Finish(t, r) ==
    /\ pc' = [pc EXCEPT ![t] = "done"]
    /\ fresh' = [fresh EXCEPT ![t] = None]
    /\ callNo' = [callNo EXCEPT ![t] = 0]
    /\ ret' = [ret EXCEPT ![t] = r]
    /\ warmRet' = [warmRet EXCEPT ![t] =
                      IF op[t] = "warm" THEN WarmResult(r) ELSE "none"]
    /\ lockOwner' = IF lockOwner = t THEN 0 ELSE lockOwner

\* a thread starts an operation: its record of the previous one is dropped
Begin(t, o, f) ==
    /\ pc[t] \in {"idle", "done"}
    /\ opsStarted < MaxOps
    /\ opsStarted' = opsStarted + 1
    /\ pc' = [pc EXCEPT ![t] = "lock"]
    /\ op' = [op EXCEPT ![t] = o]
    /\ force' = [force EXCEPT ![t] = f]
    /\ fresh' = [fresh EXCEPT ![t] = None]
    /\ callNo' = [callNo EXCEPT ![t] = 0]
    /\ outcome' = [outcome EXCEPT ![t] = "none"]
    /\ missWhy' = [missWhy EXCEPT ![t] = "none"]
    /\ ret' = [ret EXCEPT ![t] = NoResult]
    /\ warmRet' = [warmRet EXCEPT ![t] = "none"]
    /\ UNCHANGED notCache
    /\ UNCHANGED <<entryVal, ttlLeft, staleData, lockOwner, producerCalls,
                   lastGood, produced>>

\* a caller calls get(force_refresh=f)
call_get(t, f) == Begin(t, "get", f)

\* a caller calls warm(): get(force_refresh=True) inside try (line 56)
call_warm(t) == Begin(t, "warm", TRUE)

\* a caller calls clear()
call_clear(t) == Begin(t, "clear", FALSE)

\* with self._lock:
lock_acquire(t) ==
    /\ pc[t] = "lock"
    /\ LockFree(t)
    /\ lockOwner' = t
    /\ pc' = [pc EXCEPT ![t] = IF op[t] = "clear" THEN "clear" ELSE "check"]
    /\ UNCHANGED notCache
    /\ UNCHANGED <<entryVal, ttlLeft, staleData, op, force, fresh, callNo,
                   outcome, missWhy, ret, warmRet, producerCalls, opsStarted, lastGood,
                   produced>>

\* get, line 28
get_check(t) ==
    /\ pc[t] = "check"
    /\ IF CacheHit(t)
         THEN /\ pc' = [pc EXCEPT ![t] = "hit"]
              /\ UNCHANGED missWhy
         ELSE /\ pc' = [pc EXCEPT ![t] = "fetch"]
              /\ missWhy' = [missWhy EXCEPT ![t] =
                    IF force[t] THEN "forced"
                    ELSE IF entryVal = None THEN "absent" ELSE "expired"]
    /\ UNCHANGED notCache
    /\ UNCHANGED <<entryVal, ttlLeft, staleData, lockOwner, op, force, fresh,
                   callNo, outcome, ret, warmRet, producerCalls, opsStarted, lastGood,
                   produced>>

\* get, line 30: self._cache[key] is a second lookup, KeyError if the item
\* expired or was removed since the test of line 28
get_hit(t) ==
    /\ pc[t] = "hit"
    /\ Finish(t, IF KeyInCache THEN Return(entryVal) ELSE Raise("KeyError"))
    /\ UNCHANGED notCache
    /\ UNCHANGED <<entryVal, ttlLeft, staleData, op, force, outcome, missWhy,
                   producerCalls, opsStarted, lastGood, produced>>

\* _fetch_and_cache, line 37: the producer is called
fetcher_call(t) ==
    /\ pc[t] = "fetch"
    /\ pc' = [pc EXCEPT ![t] = "in_fetcher"]
    /\ producerCalls' = producerCalls + 1
    /\ callNo' = [callNo EXCEPT ![t] = producerCalls + 1]
    /\ UNCHANGED notCache
    /\ UNCHANGED <<entryVal, ttlLeft, staleData, lockOwner, op, force, fresh,
                   outcome, missWhy, ret, warmRet, opsStarted, lastGood,
                   produced>>

\* _fetch_and_cache, line 37: the producer returns a catalog or raises
fetcher_return(t, o) ==
    /\ pc[t] = "in_fetcher"
    /\ outcome' = [outcome EXCEPT ![t] = o]
    /\ IF o = "raises"
         THEN /\ pc' = [pc EXCEPT ![t] = "except"]
              /\ UNCHANGED <<fresh, lastGood, produced>>
         ELSE LET d == get_available_filters(callNo[t], o)
              IN  /\ pc' = [pc EXCEPT ![t] = "store_cache"]
                  /\ fresh' = [fresh EXCEPT ![t] = d]
                  /\ lastGood' = d
                  /\ produced' = produced \cup {d}
    /\ UNCHANGED notCache
    /\ UNCHANGED <<entryVal, ttlLeft, staleData, lockOwner, op, force, callNo,
                   missWhy, ret, warmRet, producerCalls, opsStarted>>

\* _fetch_and_cache, line 39 (the cache is built with maxsize >= 1, so the
\* one item always fits and TTLCache.__setitem__ does not raise)
store_cache(t) ==
    /\ pc[t] = "store_cache"
    /\ entryVal' = fresh[t]
    /\ ttlLeft' = Ttl
    /\ pc' = [pc EXCEPT ![t] = "store_stale"]
    /\ UNCHANGED notCache
    /\ UNCHANGED <<staleData, lockOwner, op, force, fresh, callNo, outcome,
                   missWhy, ret, warmRet, producerCalls, opsStarted, lastGood, produced>>

\* what line 40 leaves in self._stale_data
StaleKeepsOld(t) == staleData

StaleAfterStore(t) == fresh[t]

\* _fetch_and_cache, lines 40-43
store_stale(t) ==
    /\ pc[t] = "store_stale"
    /\ staleData' = StaleAfterStore(t)
    /\ Finish(t, Return(fresh[t]))
    /\ UNCHANGED notCache
    /\ UNCHANGED <<entryVal, ttlLeft, op, force, outcome,
                   missWhy, producerCalls, opsStarted, lastGood, produced>>

\* _fetch_and_cache, lines 48-52: the stale snapshot, or the exception again
ExceptAlwaysServes == Return(staleData)

ExceptResult ==
    IF staleData # None THEN Return(staleData) ELSE Raise("FetcherError")

\* what the except branch leaves in self._cache: it does not write to it
EntryReinserted == IF staleData # None THEN staleData ELSE entryVal

EntryAfterExcept == entryVal

\* _fetch_and_cache, lines 45-52
fetch_and_cache_except(t) ==
    /\ pc[t] = "except"
    /\ Finish(t, ExceptResult)
    /\ entryVal' = EntryAfterExcept
    /\ UNCHANGED notCache
    /\ UNCHANGED <<ttlLeft, staleData, op, force, outcome, missWhy,
                   producerCalls, opsStarted, lastGood, produced>>

\* what clear() leaves in self._stale_data
StaleDropped == None

StaleAfterClear == staleData

\* clear, lines 64-66
clear_cache(t) ==
    /\ pc[t] = "clear"
    /\ entryVal' = None
    /\ ttlLeft' = 0
    /\ staleData' = StaleAfterClear
    /\ Finish(t, Return(None))
    /\ UNCHANGED notCache
    /\ UNCHANGED <<op, force, outcome, missWhy, producerCalls, opsStarted,
                   lastGood, produced>>

\* the TTLCache timer advances by one tick, at any moment, also while a
\* thread holds the lock; an item whose time is up stays stored but is no
\* longer "in" the cache
Tick ==
    /\ ttlLeft > 0
    /\ ttlLeft' = ttlLeft - 1
    /\ UNCHANGED notCache
    /\ UNCHANGED <<entryVal, staleData, lockOwner, pc, op, force, fresh,
                   callNo, outcome, missWhy, ret, warmRet, producerCalls, opsStarted,
                   lastGood, produced>>

CacheNext ==
    \/ \E t \in Threads, f \in BOOLEAN : call_get(t, f)
    \/ \E t \in Threads : call_warm(t)
    \/ \E t \in Threads : call_clear(t)
    \/ \E t \in Threads : lock_acquire(t)
    \/ \E t \in Threads : get_check(t)
    \/ \E t \in Threads : get_hit(t)
    \/ \E t \in Threads : fetcher_call(t)
    \/ \E t \in Threads, o \in FetcherOutcomes : fetcher_return(t, o)
    \/ \E t \in Threads : store_cache(t)
    \/ \E t \in Threads : store_stale(t)
    \/ \E t \in Threads : fetch_and_cache_except(t)
    \/ \E t \in Threads : clear_cache(t)
    \/ Tick

(***************************************************************************)
(* fetch_with_retry (src/http_client.py).                                  *)
(***************************************************************************)
\* what one session.get can do: answer with a status, or raise (a transport
\* fault: timeout, connection error)
UpstreamOutcomes ==
    [cause : {"response"}, status : Statuses] \cup {[cause |-> "fault", status |-> 0]}

NoError == [attempt |-> 0, cause |-> "none", status |-> 0]

NoResponse == [attempt |-> 0, status |-> 0]

\* the exception of line 50, raised when the loop runs out
ExhaustedError == [attempt |-> 0, cause |-> "exhausted", status |-> 0]

\* for attempt in range(max_retries), line 26
LoopOneShort(a) == a < MaxRetries - 1

LoopContinues(a) == a < MaxRetries

\* line 29: the exponential delay before attempt a (0-based), a > 0
BackoffDelay(a) == RetryBaseDelay * (2 ^ (a - 1))

\* response.raise_for_status(): raises for a 4xx or 5xx status
RaisesOnlyClientErrors(status) == status >= 400 /\ status < 500

RaisesForStatus(status) == status >= 400 /\ status < 600

\* line 46: attempt == max_retries - 1
IsLastAttemptNever(a) == FALSE

IsLastAttempt(a) == a = MaxRetries - 1

\* one time.sleep(secs), made after `after` session.get calls of this run
Sleep(why, secs) == [why |-> why, secs |-> secs, after |-> Len(fOutcomes)]

FetchIdle ==
    /\ fPc = "loop"
    /\ fAttempt = 0
    /\ fOutcomes = <<>>
    /\ fSleeps = <<>>
    /\ fError = NoError
    /\ fResult = NoResponse

\* lines 26-30: the next iteration starts (with its backoff sleep), or the
\* loop is over and line 50 raises
fetch_loop ==
    /\ fPc = "loop"
    /\ IF LoopContinues(fAttempt)
         THEN /\ fPc' = "request"
              /\ fSleeps' = IF fAttempt > 0
                               THEN Append(fSleeps, Sleep("backoff", BackoffDelay(fAttempt)))
                               ELSE fSleeps
              /\ UNCHANGED fError
         ELSE /\ fPc' = "raised"
              /\ fError' = ExhaustedError
              /\ UNCHANGED fSleeps
    /\ UNCHANGED <<fAttempt, fOutcomes, fResult>>
    /\ UNCHANGED notFetch

\* lines 32-43: session.get, the 429 test, raise_for_status, return
session_get(o) ==
    /\ fPc = "request"
    /\ fOutcomes' = Append(fOutcomes, o)
    /\ IF o.cause = "fault"
         THEN /\ fPc' = "except"
              /\ fError' = [attempt |-> fAttempt + 1, cause |-> "fault", status |-> 0]
              /\ UNCHANGED fResult
         ELSE IF o.status = 429
         THEN /\ fPc' = "rate_limited"
              /\ UNCHANGED <<fError, fResult>>
         ELSE IF RaisesForStatus(o.status)
         THEN /\ fPc' = "except"
              /\ fError' = [attempt |-> fAttempt + 1, cause |-> "status",
                            status |-> o.status]
              /\ UNCHANGED fResult
         ELSE /\ fPc' = "returned"
              /\ fResult' = [attempt |-> fAttempt + 1, status |-> o.status]
              /\ UNCHANGED fError
    /\ UNCHANGED <<fAttempt, fSleeps>>
    /\ UNCHANGED notFetch

\* lines 39-40: sleep for random.uniform(*rate_limit_delay_range), continue
rate_limit_sleep(d) ==
    /\ fPc = "rate_limited"
    /\ fSleeps' = Append(fSleeps, Sleep("rate_limit", d))
    /\ fAttempt' = fAttempt + 1
    /\ fPc' = "loop"
    /\ UNCHANGED <<fOutcomes, fError, fResult>>
    /\ UNCHANGED notFetch

\* lines 45-48: re-raise on the last attempt, else sleep(1) and go on
retry_except ==
    /\ fPc = "except"
    /\ IF IsLastAttempt(fAttempt)
         THEN /\ fPc' = "raised"
              /\ UNCHANGED <<fAttempt, fSleeps>>
         ELSE /\ fSleeps' = Append(fSleeps, Sleep("except", ExceptDelay))
              /\ fAttempt' = fAttempt + 1
              /\ fPc' = "loop"
    /\ UNCHANGED <<fOutcomes, fError, fResult>>
    /\ UNCHANGED notFetch

FetchNext ==
    \/ fetch_loop
    \/ \E o \in UpstreamOutcomes : session_get(o)
    \/ \E d \in RateLimitDelayLo..RateLimitDelayHi : rate_limit_sleep(d)
    \/ retry_except

(***************************************************************************)
(* Python values and strings.  A string is a sequence of characters; a     *)
(* value is a record of one shape: kind "null" (None), "str" (s), "int"    *)
(* (n), "float" (n / 10^e), "list" (of n items), "dict" (items: key to     *)
(* value), or "raise" (an exception that escaped, named in s).             *)
(***************************************************************************)
NoItems == [k \in {} |-> 0]

PyValue(kind, s, n, e, items) ==
    [kind |-> kind, s |-> s, n |-> n, e |-> e, items |-> items]

PyNone == PyValue("null", <<>>, 0, 0, NoItems)

PyStr(s) == PyValue("str", s, 0, 0, NoItems)

PyInt(n) == PyValue("int", <<>>, n, 0, NoItems)

PyList(len) == PyValue("list", <<>>, len, 0, NoItems)

PyDict(items) == PyValue("dict", <<>>, 0, 0, items)

PyRaise(exc) == PyValue("raise", <<exc>>, 0, 0, NoItems)

\* a float n / 10^e, written with the fewest decimals
RECURSIVE PyFloat(_, _)
PyFloat(n, e) ==
    IF e > 0 /\ n % 10 = 0 THEN PyFloat(n \div 10, e - 1)
    ELSE PyValue("float", <<>>, n, e, NoItems)

Digits == {"0", "1", "2", "3", "4", "5", "6", "7", "8", "9"}

DigitValue(c) ==
    CASE c = "0" -> 0 [] c = "1" -> 1 [] c = "2" -> 2 [] c = "3" -> 3
      [] c = "4" -> 4 [] c = "5" -> 5 [] c = "6" -> 6 [] c = "7" -> 7
      [] c = "8" -> 8 [] c = "9" -> 9

\* str.replace(old, new) for a one-character old; new is a string
RECURSIVE StrReplace(_, _, _)
StrReplace(s, old, new) ==
    IF s = <<>> THEN <<>>
    ELSE (IF Head(s) = old THEN new ELSE <<Head(s)>>)
            \o StrReplace(Tail(s), old, new)

\* the number a string of digits denotes
RECURSIVE DigitsToNat(_)
DigitsToNat(s) ==
    IF s = <<>> THEN 0
    ELSE DigitsToNat(SubSeq(s, 1, Len(s) - 1)) * 10 + DigitValue(s[Len(s)])

AllDigits(s) == \A i \in 1..Len(s) : s[i] \in Digits

Unsigned(s) == IF s # <<>> /\ Head(s) \in {"-", "+"} THEN Tail(s) ELSE s

SignOf(s) == IF s # <<>> /\ Head(s) = "-" THEN -1 ELSE 1

\* the strings int() accepts: an optional sign and one or more digits
IsIntLiteral(s) == Unsigned(s) # <<>> /\ AllDigits(Unsigned(s))

\* the words float() reads as not-a-number and as infinity
SpecialFloats == {<<"n", "a", "n">>, <<"i", "n", "f">>}

\* the strings float() accepts: an optional sign, then digits with at most
\* one decimal point and one digit at least, or one of the special words
\* (over the characters tried here: no blanks, underscores or exponents)
IsFloatLiteral(s) ==
    LET u == Unsigned(s)
        points == {i \in 1..Len(u) : u[i] = "."}
    IN  \/ /\ Cardinality(points) <= 1
           /\ \A i \in 1..Len(u) : u[i] \in Digits \cup {"."}
           /\ \E i \in 1..Len(u) : u[i] \in Digits
        \/ u \in SpecialFloats

\* int(val): the integer, or the exception raised
PyIntOf(val) ==
    CASE val.kind = "int" -> val
      [] val.kind = "str" ->
            IF IsIntLiteral(val.s)
              THEN PyInt(SignOf(val.s) * DigitsToNat(Unsigned(val.s)))
              ELSE PyRaise("ValueError")
      [] OTHER -> PyRaise("TypeError")

\* float(val): the float, or the exception raised
PyFloatOf(val) ==
    CASE val.kind = "int" -> PyFloat(val.n, 0)
      [] val.kind = "str" ->
            IF Unsigned(val.s) \in SpecialFloats
              THEN PyValue("float", Unsigned(val.s), SignOf(val.s), 0, NoItems)
            ELSE IF IsFloatLiteral(val.s)
              THEN LET u == Unsigned(val.s)
                       ds == SelectSeq(u, LAMBDA c : c \in Digits)
                       pt == IF \E i \in 1..Len(u) : u[i] = "."
                               THEN CHOOSE i \in 1..Len(u) : u[i] = "."
                               ELSE Len(u) + 1
                   IN  PyFloat(SignOf(val.s) * DigitsToNat(ds), Len(u) + 1 - pt
                                    - (IF pt <= Len(u) THEN 1 ELSE 0))
              ELSE PyRaise("ValueError")
      [] OTHER -> PyRaise("TypeError")

(***************************************************************************)
(* safe_int / safe_float (src/utils.py).                                   *)
(***************************************************************************)
\* except (ValueError, TypeError): the try block ends with the value, or with
\* None when the exception is one of those caught; any other escapes
CoerceGuard(r) ==
    IF r.kind = "raise" /\ r.s[1] \in {"ValueError", "TypeError"} THEN PyNone ELSE r

\* line 34: val.replace('.', '').replace(',', '')
safe_int(val) ==
    CoerceGuard(PyIntOf(IF val.kind = "str"
                          THEN PyStr(StrReplace(StrReplace(val.s, ".", <<>>), ",", <<>>))
                          ELSE val))

\* line 44: val.replace('.', '').replace(',', '.')
safe_float(val) ==
    CoerceGuard(PyFloatOf(IF val.kind = "str"
                            THEN PyStr(StrReplace(StrReplace(val.s, ".", <<>>), ",", <<".">>))
                            ELSE val))

\* the characters of the strings tried
CoerceAlphabet == {"1", "2", ".", ",", "x", "-"}

StringsUpTo(alphabet, n) == UNION {[1..k -> alphabet] : k \in 0..n}

\* the arguments tried: every short string, the two strings of the
\* specification, None, integers and a list
CoerceInputs ==
    {PyStr(s) : s \in StringsUpTo(CoerceAlphabet, MaxStrLen)}
      \cup {PyStr(<<"1", "2", ".", "3", "4", "5">>),
            PyStr(<<"1", "2", ".", "3", "4", "5", ",", "6", "7">>),
            PyStr(<<"1", ".", "2", "3", "4", ".", "5", "6", "7">>),
            PyStr(<<"4", "5", ".", "0", "0", "0", ",", "5", "0">>),
            PyStr(<<"n", "a", "n">>), PyStr(<<"i", "n", "f">>),
            PyNone, PyList(2), PyInt(0), PyInt(12345)}

CoerceIdle == cIn = PyNone /\ cFn = "none" /\ cOut = PyNone

CoerceInit == cIn \in CoerceInputs /\ cFn = "none" /\ cOut = PyNone

call_safe_int ==
    /\ cFn = "none"
    /\ cFn' = "safe_int"
    /\ cOut' = safe_int(cIn)
    /\ UNCHANGED cIn
    /\ UNCHANGED notCoerce

call_safe_float ==
    /\ cFn = "none"
    /\ cFn' = "safe_float"
    /\ cOut' = safe_float(cIn)
    /\ UNCHANGED cIn
    /\ UNCHANGED notCoerce

CoerceNext == call_safe_int \/ call_safe_float

(***************************************************************************)
(* Strings: str.lower, str.strip, str.split and re.sub for the patterns    *)
(* CarModelParser uses.                                                    *)
(***************************************************************************)
\* the capital letters, Latin and Greek, and their small letters
UpperCase == <<"A", "B", "C", "D", "E", "F", "G", "H", "I", "J", "K", "L", "M",
               "N", "O", "P", "Q", "R", "S", "T", "U", "V", "W", "X", "Y", "Z",
               "Α", "Β", "Γ", "Δ", "Ε", "Ζ", "Η", "Θ", "Ι", "Κ", "Λ", "Μ", "Ν",
               "Ξ", "Ο", "Π", "Ρ", "Σ", "Τ", "Υ", "Φ", "Χ", "Ψ", "Ω", "Ά", "Έ",
               "Ή", "Ί", "Ό", "Ύ", "Ώ">>

LowerCase == <<"a", "b", "c", "d", "e", "f", "g", "h", "i", "j", "k", "l", "m",
               "n", "o", "p", "q", "r", "s", "t", "u", "v", "w", "x", "y", "z",
               "α", "β", "γ", "δ", "ε", "ζ", "η", "θ", "ι", "κ", "λ", "μ", "ν",
               "ξ", "ο", "π", "ρ", "σ", "τ", "υ", "φ", "χ", "ψ", "ω", "ά", "έ",
               "ή", "ί", "ό", "ύ", "ώ">>

\* str.lower() of one character
Lower(c) ==
    IF \E i \in DOMAIN UpperCase : UpperCase[i] = c
      THEN LowerCase[CHOOSE i \in DOMAIN UpperCase : UpperCase[i] = c]
      ELSE c

LowerStr(s) == [i \in 1..Len(s) |-> Lower(s[i])]

IsSpace(c) == c \in {" ", "\t", "\n"}

\* \w
IsWordChar(c) ==
    \/ c \in Digits \cup {"_"}
    \/ \E i \in DOMAIN UpperCase : c \in {UpperCase[i], LowerCase[i]}

\* str.strip()
RECURSIVE Strip(_)
Strip(s) ==
    IF s # <<>> /\ IsSpace(Head(s)) THEN Strip(Tail(s))
    ELSE IF s # <<>> /\ IsSpace(s[Len(s)]) THEN Strip(SubSeq(s, 1, Len(s) - 1))
    ELSE s

\* str.split(): the whitespace-delimited tokens
RECURSIVE Split(_)
Split(s) ==
    LET t == Strip(s)
        k == CHOOSE k \in 1..Len(t) :
                /\ \A i \in 1..k : ~IsSpace(t[i])
                /\ (k = Len(t) \/ IsSpace(t[k + 1]))
    IN  IF t = <<>> THEN <<>>
        ELSE <<SubSeq(t, 1, k)>> \o Split(SubSeq(t, k + 1, Len(t)))

\* \b at position i of s: one side of it is a word character, the other not
WordBoundary(s, i) ==
    (i > 1 /\ IsWordChar(s[i - 1])) # (i <= Len(s) /\ IsWordChar(s[i]))

\* the literal lit stands at position i of s, letter case ignored
LiteralAt(s, i, lit) ==
    /\ i + Len(lit) - 1 <= Len(s)
    /\ \A j \in 1..Len(lit) : Lower(s[i + j - 1]) = Lower(lit[j])

\* Professional|Edition|Pack|Sport
StopWords == <<<<"P", "r", "o", "f", "e", "s", "s", "i", "o", "n", "a", "l">>,
               <<"E", "d", "i", "t", "i", "o", "n">>,
               <<"P", "a", "c", "k">>,
               <<"S", "p", "o", "r", "t">>>>

\* re.compile fails on a group that is opened and never closed
ReError(make) ==
    Len(SelectSeq(make, LAMBDA c : c = "(")) > Len(SelectSeq(make, LAMBDA c : c = ")"))

\* length of the match that starts at position i of s, 0 if none, for the
\* patterns "literal" (lit, re.IGNORECASE), "year" (r'\b(19|20)\d{2}\b') and
\* "stoplist" (r'\b(Professional|Edition|Pack|Sport)\b', re.IGNORECASE)
MatchLen(pat, lit, s, i) ==
    CASE pat = "literal" ->
            IF LiteralAt(s, i, lit) THEN Len(lit) ELSE 0
      [] pat = "year" ->
            IF /\ WordBoundary(s, i)
               /\ i + 3 <= Len(s)
               /\ <<s[i], s[i + 1]>> \in {<<"1", "9">>, <<"2", "0">>}
               /\ s[i + 2] \in Digits /\ s[i + 3] \in Digits
               /\ WordBoundary(s, i + 4)
              THEN 4 ELSE 0
      [] pat = "stoplist" ->
            LET hits == {k \in DOMAIN StopWords :
                            /\ WordBoundary(s, i)
                            /\ LiteralAt(s, i, StopWords[k])
                            /\ WordBoundary(s, i + Len(StopWords[k]))}
            IN  IF hits = {} THEN 0
                ELSE Len(StopWords[CHOOSE k \in hits : \A h \in hits : k <= h])

\* re.sub(pat, '', s) from position i on
RECURSIVE ReSubFrom(_, _, _, _)
ReSubFrom(pat, lit, s, i) ==
    IF i > Len(s) THEN <<>>
    ELSE LET len == MatchLen(pat, lit, s, i)
         IN  IF len > 0 THEN ReSubFrom(pat, lit, s, i + len)
             ELSE <<s[i]>> \o ReSubFrom(pat, lit, s, i + 1)

ReSub(pat, lit, s) == ReSubFrom(pat, lit, s, 1)

(***************************************************************************)
(* JSON-LD values (src/utils.py, extract_json_ld: always a mapping).       *)
(***************************************************************************)
EmptyDict == PyDict(NoItems)

PyBool(b) == PyValue("bool", <<>>, IF b THEN 1 ELSE 0, 0, NoItems)

\* {key: val}
PyObj(key, val) == PyDict([k \in {key} |-> val])

\* a mapping with the items of both
Merge(a, b) == PyDict(a.items @@ b.items)

\* bool(v)
Truthy(v) ==
    CASE v.kind = "str" -> v.s # <<>>
      [] v.kind \in {"int", "float", "bool"} -> v.n # 0
      [] v.kind = "list" -> v.n > 0
      [] v.kind = "dict" -> DOMAIN v.items # {}
      [] OTHER -> FALSE

\* a or b
PyOr(a, b) == IF a.kind = "raise" \/ Truthy(a) THEN a ELSE b

\* d.get(key, default) on a mapping
DictGet(d, key, default) == IF key \in DOMAIN d.items THEN d.items[key] ELSE default

\* v.get(key, default) on whatever v is: only a mapping has .get
Get(v, key, default) ==
    IF v.kind = "raise" THEN v
    ELSE IF v.kind = "dict" THEN DictGet(v, key, default)
    ELSE PyRaise("AttributeError")

\* except Exception: pass ... return None
ExceptToNone(r) == IF r.kind = "raise" THEN PyNone ELSE r

(***************************************************************************)
(* The field parsers (src/field_parsers.py).                               *)
(***************************************************************************)
\* BaseFieldParser.parse, lines 19-25: the walk along json_path.split('.')
RECURSIVE WalkPath(_, _)
WalkPath(val, path) ==
    IF path = <<>> THEN val
    ELSE IF val.kind = "dict" THEN WalkPath(DictGet(val, Head(path), PyNone), Tail(path))
    ELSE PyNone

\* line 26: if val is not None
PathHitNever(val) == FALSE

PathHit(val) == val # PyNone

\* re.search(self.regex, meta): the captured groups, <<>> without a match
re_search(d, m) == IF d.regex = "none" THEN <<>> ELSE m

BaseFieldParser_parse(d, j, m) ==
    IF d.path # <<>> /\ PathHit(WalkPath(j, d.path)) THEN WalkPath(j, d.path)
    ELSE IF re_search(d, m) # <<>> THEN PyStr(re_search(d, m)[1])
    ELSE PyNone

FloatParser_parse(d, j, m) == safe_float(BaseFieldParser_parse(d, j, m))

IntParser_parse(d, j, m) == safe_int(BaseFieldParser_parse(d, j, m))

\* the first run of digits of s: re.search(r'(\d+)', text)
RECURSIVE FirstDigits(_)
FirstDigits(s) ==
    IF s = <<>> THEN <<>>
    ELSE IF Head(s) \in Digits
      THEN LET k == CHOOSE k \in 1..Len(s) :
                        /\ \A i \in 1..k : s[i] \in Digits
                        /\ (k = Len(s) \/ s[k + 1] \notin Digits)
           IN  SubSeq(s, 1, k)
      ELSE FirstDigits(Tail(s))

\* sp.cell is the text of the value cell with a leading copy of the label
\* taken off (None when the label, its row or the cell is not found)
TableValueParser_parse(d, sp) ==
    IF sp.cell = PyNone THEN PyNone
    ELSE LET text == Strip(sp.cell.s)
         IN  IF d.otype = "int"
               THEN (IF FirstDigits(text) # <<>>
                       THEN safe_int(PyStr(FirstDigits(text))) ELSE PyNone)
               ELSE PyStr(text)

\* the JSON-LD path first, as the other parsers do
ReleaseDatePathFirst(d, j, m) == BaseFieldParser_parse(d, j, m)

\* the text pattern first, then the JSON-LD path
ReleaseDateParser_parse(d, j, m) ==
    IF re_search(d, m) # <<>>
      THEN PyStr(re_search(d, m)[1] \o <<"/">> \o re_search(d, m)[2])
      ELSE BaseFieldParser_parse(d, j, m)

DescriptionParser_parse(d, j, m, sp) ==
    IF Truthy(BaseFieldParser_parse(d, j, m)) THEN BaseFieldParser_parse(d, j, m)
    ELSE sp.description

\* lines 144-156, title and make being strings
InferModel(title, make) ==
    IF ReError(make) THEN PyRaise("re.error")
    ELSE LET noMake == Strip(ReSub("literal", make, title))
             noYear == Strip(ReSub("year", <<>>, noMake))
             clean_title == Strip(ReSub("stoplist", <<>>, noYear))
         IN  IF clean_title # <<>> THEN PyStr(Split(clean_title)[1]) ELSE PyNone

\* line 136-138: json_data.get('name') or '', then the page's <title>
ModelTitleJsonOnly(j, sp) == PyOr(DictGet(j, "name", PyNone), PyStr(<<>>))

ModelTitle(j, sp) ==
    IF ~Truthy(PyOr(DictGet(j, "name", PyNone), PyStr(<<>>))) /\ sp.title # PyNone
      THEN sp.title
      ELSE PyOr(DictGet(j, "name", PyNone), PyStr(<<>>))

\* line 140
ModelMake(j) ==
    PyOr(DictGet(j, "manufacturer", PyNone),
         Get(DictGet(j, "brand", EmptyDict), "name", PyNone))

CarModelParser_parse(j, sp) ==
    IF Truthy(DictGet(j, "model", PyNone)) THEN j.items["model"]
    ELSE ExceptToNone(
            IF ModelMake(j).kind = "raise" THEN ModelMake(j)
            ELSE IF Truthy(ModelTitle(j, sp)) /\ Truthy(ModelMake(j))
              THEN (IF ModelTitle(j, sp).kind = "str" /\ ModelMake(j).kind = "str"
                      THEN InferModel(ModelTitle(j, sp).s, ModelMake(j).s)
                      ELSE PyRaise("TypeError"))
              ELSE PyNone)

\* json_data.get('offers', {}).get('seller', {})
OffersSeller(j) == Get(DictGet(j, "offers", EmptyDict), "seller", EmptyDict)

CityParser_parse(j, sp) ==
    IF sp.location # PyNone THEN sp.location
    ELSE LET geo == Get(OffersSeller(j), "areaServed", EmptyDict)
         IN  ExceptToNone(
                IF geo.kind = "raise" THEN geo
                ELSE IF Truthy(geo) /\ geo.kind = "dict" /\ "name" \in DOMAIN geo.items
                  THEN geo.items["name"]
                  ELSE PyNone)

\* line 195 stands outside the try block: what it raises escapes
SellerNameParser_parse(j, sp) ==
    LET name == Get(OffersSeller(j), "name", PyNone)
    IN  IF name.kind = "raise" \/ Truthy(name) THEN name ELSE sp.seller_link

(***************************************************************************)
(* CarListingParser (src/car_parser.py).                                   *)
(***************************************************************************)
Descriptor(cls, path, regex, otype) ==
    [cls |-> cls, path |-> path, regex |-> regex, otype |-> otype]

FIELD_PARSERS ==
    [title        |-> Descriptor("BaseFieldParser", <<"name">>, "none", "str"),
     url          |-> Descriptor("BaseFieldParser", <<"url">>, "none", "str"),
     price        |-> Descriptor("BaseFieldParser",
                                 <<"offers", "priceSpecification", "price">>, "none", "str"),
     make         |-> Descriptor("BaseFieldParser", <<"manufacturer">>, "none", "str"),
     model        |-> Descriptor("CarModelParser", <<>>, "none", "str"),
     km           |-> Descriptor("FloatParser", <<"mileageFromOdometer", "value">>, "km", "str"),
     engine       |-> Descriptor("IntParser", <<>>, "engine", "str"),
     bhp          |-> Descriptor("IntParser", <<>>, "bhp", "str"),
     fueltype     |-> Descriptor("BaseFieldParser", <<"fuelType">>, "fueltype", "str"),
     transmission |-> Descriptor("BaseFieldParser", <<"vehicleTransmission">>, "transmission", "str"),
     release_date |-> Descriptor("ReleaseDateParser", <<"modelDate">>, "release_date", "str"),
     description  |-> Descriptor("DescriptionParser", <<"description">>, "none", "str"),
     images       |-> Descriptor("BaseFieldParser", <<"image">>, "none", "str"),
     is_dealer    |-> Descriptor("BaseFieldParser", <<"offers", "seller", "@type">>, "none", "str"),
     color        |-> Descriptor("TableValueParser", <<>>, "none", "str"),
     category     |-> Descriptor("TableValueParser", <<>>, "none", "str"),
     euro_class   |-> Descriptor("TableValueParser", <<>>, "none", "str"),
     kteo_expiry  |-> Descriptor("TableValueParser", <<>>, "none", "str"),
     views        |-> Descriptor("TableValueParser", <<>>, "none", "int"),
     modified_at  |-> Descriptor("TableValueParser", <<>>, "none", "str"),
     road_tax     |-> Descriptor("TableValueParser", <<>>, "none", "int"),
     seats        |-> Descriptor("TableValueParser", <<>>, "none", "int"),
     doors        |-> Descriptor("TableValueParser", <<>>, "none", "int"),
     seller_name  |-> Descriptor("SellerNameParser", <<>>, "none", "str"),
     city         |-> Descriptor("CityParser", <<>>, "none", "str")]

\* CarListingParser._is_dealer, lines 104-113
is_dealer(j, sp) ==
    LET seller_type == Get(OffersSeller(j), "@type", PyNone)
    IN  IF seller_type.kind = "raise" THEN seller_type
        ELSE PyBool(\/ seller_type \in {PyStr(<<"A", "u", "t", "o", "D", "e", "a", "l", "e", "r">>),
                                   PyStr(<<"O", "r", "g", "a", "n", "i", "z", "a", "t", "i", "o", "n">>)}
                  \/ sp.dealer_text)

(***************************************************************************)
(* The documents tried: for each field, the JSON-LD mappings that differ   *)
(* along the keys its parser reads, what its pattern captures in the meta  *)
(* description, and what its DOM lookups find.                             *)
(***************************************************************************)
\* values a JSON-LD key may hold
JsonLeaves ==
    {PyNone, PyStr(<<>>), PyStr(<<"4", "5", ".", "0", "0", "0">>), PyStr(<<"x">>), PyInt(0), PyInt(45000),
     PyList(0), PyList(2), EmptyDict, PyStr(<<"A", "u", "t", "o", "D", "e", "a", "l", "e", "r">>)}

\* the mappings that differ along path: each key absent, holding a leaf, or
\* holding a mapping that goes on along the path
RECURSIVE DocsAlong(_, _)
DocsAlong(path, leaves) ==
    {EmptyDict} \cup
    {PyObj(Head(path), v) :
        v \in IF Len(path) = 1 THEN leaves
              ELSE (JsonLeaves \ {EmptyDict}) \cup DocsAlong(Tail(path), leaves)}

\* the documents for the model field: with and without 'model', 'name'
\* (the titles tried), 'manufacturer' (the names tried) and 'brand'
ModelDocs ==
    LET Titles ==
            {<<"B", "M", "W", " ", "3", "2", "0", "d", " ", "2", "0", "1", "9">>,
            <<"b", "m", "w", " ", "2", "0", "1", "9">>,
            <<"S", "p", "o", "r", "t", " ", "E", "d", "i", "t", "i", "o", "n", " ", "B", "M", "W", " ", "X", "5", " ", "1", "9", "9", "9", " ", "P", "a", "c", "k">>,
            <<"B", "M", "W", " ", "3", "2", "0", "1", "9">>,
            <<"B", "M", "W", "X", "5", " ", "2", "0", "1", "9">>,
            <<"3", "2", "0", "d", "-", "2", "0", "1", "9", " ", "B", "M", "W">>,
            <<"2", "1", "0", "0", " ", "B", "M", "W">>,
            <<" ", " ", "B", "m", "w", " ", " ", " ", "X", "5", " ", " ">>,
            <<"A", "u", "d", "i", " ", "A", "4", " ", "S", "p", "o", "r", "t">>}
        Makes == {<<"B", "M", "W">>, <<"b", "m", "w">>, <<"A", "u", "d", "i">>, <<"B", "M", "W", "(">>}
    IN
    {Merge(Merge(a, b), Merge(c, d)) :
        a \in DocsAlong(<<"model">>, {PyNone, PyStr(<<>>), PyStr(<<"X", "5">>)}),
        b \in DocsAlong(<<"name">>, {PyNone, PyStr(<<>>), PyInt(5)} \cup {PyStr(t) : t \in Titles}),
        c \in DocsAlong(<<"manufacturer">>,
                        {PyNone, PyStr(<<>>), PyObj("name", PyStr(<<"B", "M", "W">>))}
                            \cup {PyStr(mk) : mk \in Makes}),
        d \in DocsAlong(<<"brand">>,
                        {PyNone, PyStr(<<"B", "M", "W">>), EmptyDict, PyObj("name", PyNone),
                         PyObj("name", PyStr(<<"B", "M", "W">>))})}

JsonFor(f) ==
    CASE f = "model" -> ModelDocs
      [] f = "seller_name" -> DocsAlong(<<"offers", "seller", "name">>, JsonLeaves)
      [] f = "city" -> DocsAlong(<<"offers", "seller", "areaServed", "name">>, JsonLeaves)
      [] f = "_is_dealer" -> DocsAlong(<<"offers", "seller", "@type">>, JsonLeaves)
      [] OTHER -> IF FIELD_PARSERS[f].path # <<>>
                    THEN DocsAlong(FIELD_PARSERS[f].path, JsonLeaves)
                    ELSE {EmptyDict}

\* the captures of the field's pattern
MetaFor(f) ==
    {<<>>} \cup
    CASE f = "_is_dealer" -> {}
      [] FIELD_PARSERS[f].regex = "none" -> {}
      [] FIELD_PARSERS[f].regex = "release_date" ->
            {<<<<"3">>, <<"2", "0", "1", "9">>>>, <<<<"1", "2">>, <<"2", "0", "2", "0">>>>}
      [] FIELD_PARSERS[f].regex \in {"km", "engine"} -> {<<<<"9", "9", ".", "9", "9", "9">>>>, <<<<".">>>>}
      [] FIELD_PARSERS[f].regex = "bhp" -> {<<<<"1", "5", "0">>>>}
      [] OTHER -> {<<<<"x", "y">>>>}

NoSoup ==
    [title |-> PyNone, description |-> PyNone, cell |-> PyNone,
     location |-> PyNone, seller_link |-> PyNone, dealer_text |-> FALSE]

Texts == {PyNone, PyStr(<<>>), PyStr(<<"t">>)}

SoupFor(f) ==
    CASE f = "model" -> {[NoSoup EXCEPT !.title = t] :
                            t \in {PyNone, PyStr(<<>>), PyStr(<<"B", "M", "W", " ", "3", "2", "0", "d", " ", "2", "0", "1", "9">>)}}
      [] f = "description" -> {[NoSoup EXCEPT !.description = t] : t \in Texts}
      [] f = "city" -> {[NoSoup EXCEPT !.location = t] : t \in Texts}
      [] f = "seller_name" -> {[NoSoup EXCEPT !.seller_link = t] : t \in Texts}
      [] f = "_is_dealer" -> {[NoSoup EXCEPT !.dealer_text = b] : b \in BOOLEAN}
      [] FIELD_PARSERS[f].cls = "TableValueParser" ->
            {[NoSoup EXCEPT !.cell = t] :
                t \in Texts \cup {PyStr(<<" ", "5", " ">>),
                                  PyStr(<<"x", " ", "1", "2", " ", "3">>)}}
      [] OTHER -> {NoSoup}

ParseIdle ==
    /\ field = "none"
    /\ json_data = EmptyDict
    /\ meta = <<>>
    /\ soup = NoSoup
    /\ parsed = PyNone
    /\ parsePc = "idle"

\* CarListingParser.__init__: the page is fetched and taken apart
ParseInit ==
    /\ field \in DOMAIN FIELD_PARSERS \cup {"_is_dealer"}
    /\ json_data \in JsonFor(field)
    /\ meta \in MetaFor(field)
    /\ soup \in SoupFor(field)
    /\ parsed = PyNone
    /\ parsePc = "ready"

\* _get_field(field) with the parser of class cls
Resolve(cls, result) ==
    /\ parsePc = "ready"
    /\ field \in DOMAIN FIELD_PARSERS
    /\ FIELD_PARSERS[field].cls = cls
    /\ parsed' = result
    /\ parsePc' = "done"
    /\ UNCHANGED <<field, json_data, meta, soup>>
    /\ UNCHANGED notParse

parse_base ==
    Resolve("BaseFieldParser", BaseFieldParser_parse(FIELD_PARSERS[field], json_data, meta))

parse_float ==
    Resolve("FloatParser", FloatParser_parse(FIELD_PARSERS[field], json_data, meta))

parse_int ==
    Resolve("IntParser", IntParser_parse(FIELD_PARSERS[field], json_data, meta))

parse_table ==
    Resolve("TableValueParser", TableValueParser_parse(FIELD_PARSERS[field], soup))

parse_release_date ==
    Resolve("ReleaseDateParser",
            ReleaseDateParser_parse(FIELD_PARSERS[field], json_data, meta))

parse_description ==
    Resolve("DescriptionParser",
            DescriptionParser_parse(FIELD_PARSERS[field], json_data, meta, soup))

parse_model == Resolve("CarModelParser", CarModelParser_parse(json_data, soup))

parse_city == Resolve("CityParser", CityParser_parse(json_data, soup))

parse_seller_name ==
    Resolve("SellerNameParser", SellerNameParser_parse(json_data, soup))

call_is_dealer ==
    /\ parsePc = "ready"
    /\ field = "_is_dealer"
    /\ parsed' = is_dealer(json_data, soup)
    /\ parsePc' = "done"
    /\ UNCHANGED <<field, json_data, meta, soup>>
    /\ UNCHANGED notParse

ParseNext ==
    \/ parse_base
    \/ parse_float
    \/ parse_int
    \/ parse_table
    \/ parse_release_date
    \/ parse_description
    \/ parse_model
    \/ parse_city
    \/ parse_seller_name
    \/ call_is_dealer

(***************************************************************************)
(* FilterDiscoveryParser (src/filter_parser.py): the classification pass.  *)
(***************************************************************************)
\* lit in s
Contains(s, lit) ==
    \E i \in 1..(Len(s) + 1) :
        i + Len(lit) - 1 <= Len(s) /\ SubSeq(s, i, i + Len(lit) - 1) = lit

\* the run of digits and dots that starts at position i of s
RECURSIVE CountRun(_, _)
CountRun(s, i) ==
    IF i <= Len(s) /\ s[i] \in Digits \cup {"."}
      THEN <<s[i]>> \o CountRun(s, i + 1) ELSE <<>>

\* r'\((\d+[\.\d]*)\)' matches at position i of s
CountAt(s, i) ==
    /\ i <= Len(s) /\ s[i] = "("
    /\ CountRun(s, i + 1) # <<>>
    /\ CountRun(s, i + 1)[1] \in Digits
    /\ i + Len(CountRun(s, i + 1)) + 1 <= Len(s)
    /\ s[i + Len(CountRun(s, i + 1)) + 1] = ")"

\* re.search takes the leftmost match; int(group(1).replace('.', ''))
_extract_count(text) ==
    LET hits == {i \in 1..Len(text) : CountAt(text, i)}
        first == CHOOSE i \in hits : \A h \in hits : i <= h
    IN  IF hits = {} THEN PyNone
        ELSE PyInt(DigitsToNat(StrReplace(CountRun(text, first + 1), ".", <<>>)))

\* r'\s*\(\d+[\.\d]*\)$' replaced by '', then strip()
_clean_label(text) ==
    LET hits == {i \in 1..Len(text) :
                    CountAt(text, i) /\ i + Len(CountRun(text, i + 1)) + 1 = Len(text)}
        first == CHOOSE i \in hits : \A h \in hits : i <= h
    IN  IF hits = {} THEN Strip(text)
        ELSE Strip(SubSeq(text, 1, first - 1))

FilterOption(label, value, count) == [label |-> label, value |-> value, count |-> count]

\* option.get('value') is None or empty, the text is empty or a placeholder
IsSkipped(option) ==
    \/ option.value = <<>>
    \/ Strip(option.text) = <<>>
    \/ Strip(option.text) \in {<<"Ό", "λ", "α">>,
                              <<"Α", "π", "ό">>,
                              <<"Έ", "ω", "ς">>,
                              <<"-">>,
                              <<"Μ", "ά", "ρ", "κ", "α">>,
                              <<"Μ", "ο", "ν", "τ", "έ", "λ", "ο">>}

RECURSIVE _parse_options_from_select(_)
_parse_options_from_select(select) ==
    IF select = <<>> THEN <<>>
    ELSE (IF IsSkipped(Head(select)) THEN <<>>
          ELSE <<FilterOption(_clean_label(Strip(Head(select).text)),
                              Head(select).value,
                              _extract_count(Strip(Head(select).text)))>>)
            \o _parse_options_from_select(Tail(select))

\* the words of the signature rules (lines 80-113) and of value_map
Words ==
    [petrol |-> <<"β", "ε", "ν", "ζ", "ί", "ν", "η">>,
     diesel |-> <<"π", "ε", "τ", "ρ", "έ", "λ", "α", "ι", "ο">>,
     euro6 |-> <<"e", "u", "r", "o", " ", "6">>,
     euro5 |-> <<"e", "u", "r", "o", " ", "5">>,
     silver |-> <<"α", "σ", "η", "μ", "ί">>,
     black |-> <<"μ", "α", "ύ", "ρ", "ο">>,
     red |-> <<"κ", "ό", "κ", "κ", "ι", "ν", "ο">>,
     metallic |-> <<"μ", "ε", "τ", "α", "λ", "λ", "ι", "κ", "ό">>,
     matt |-> <<"μ", "α", "τ">>,
     beige |-> <<"μ", "π", "ε", "ζ">>,
     grey |-> <<"γ", "κ", "ρ", "ι">>,
     twoTone |-> <<"δ", "ί", "χ", "ρ", "ω", "μ", "ο">>,
     alcantara |-> <<"a", "l", "c", "a", "n", "t", "a", "r", "a">>,
     velvet |-> <<"β", "ε", "λ", "ο", "ύ", "δ", "ο">>,
     withPhotos |-> <<"μ", "ε", " ", "φ", "ω", "τ", "ο", "γ", "ρ", "α", "φ", "ί", "ε", "ς">>,
     overOneYear |-> <<"π", "ά", "ν", "ω", " ", "α", "π", "ό", " ", "1", " ", "χ", "ρ", "ό", "ν", "ο">>,
     oddPlate |-> <<"μ", "ο", "ν", "ή">>,
     evenPlate |-> <<"ζ", "υ", "γ", "ή">>,
     audi |-> <<"a", "u", "d", "i">>,
     bmw |-> <<"b", "m", "w">>,
     doors23 |-> <<"2", "/", "3">>,
     doors45 |-> <<"4", "/", "5">>,
     manual |-> <<"Χ", "ε", "ι", "ρ", "ο", "κ", "ί", "ν", "η", "τ", "ο">>,
     automatic |-> <<"Α", "υ", "τ", "ό", "μ", "α", "τ", "ο">>,
     dealer |-> <<"Έ", "μ", "π", "ο", "ρ", "ο", "ς">>,
     allButton |-> <<"Ό", "λ", "α">>]

\* any(tok in l for l in labels)
AnyContains(labels, tok) == \E i \in DOMAIN labels : Contains(labels[i], tok)

\* tok in labels
Among(labels, tok) == \E i \in DOMAIN labels : labels[i] = tok

\* the rules of lines 80-113 tried from the last to the first
IdentifyLastRuleFirst(options) ==
    LET labels == [i \in DOMAIN options |-> LowerStr(options[i].label)]
        values == [i \in DOMAIN options |-> options[i].value]
    IN  IF /\ Among(values, <<"2">>) /\ Among(values, <<"4">>) /\ Among(values, <<"5">>)
           /\ Len(values) > 5
          THEN "seats"
        ELSE IF Among(labels, Words.doors23) /\ Among(labels, Words.doors45)
          THEN "doors"
        ELSE IF Among(labels, Words.audi) /\ Among(labels, Words.bmw)
          THEN "make"
        ELSE IF Among(labels, Words.oddPlate) /\ Among(labels, Words.evenPlate)
          THEN "number_plate_ending"
        ELSE IF AnyContains(labels, Words.overOneYear)
          THEN "kteo"
        ELSE IF Among(labels, Words.withPhotos)
          THEN "media_types"
        ELSE IF Among(labels, Words.alcantara) /\ Among(labels, Words.velvet)
          THEN "interior_type"
        ELSE IF Among(labels, Words.beige) /\ Among(labels, Words.grey) /\ Among(labels, Words.twoTone)
          THEN "interior_color"
        ELSE IF Among(labels, Words.metallic) /\ Among(labels, Words.matt)
          THEN "exterior_color_type"
        ELSE IF Among(labels, Words.silver) /\ Among(labels, Words.black) /\ Among(labels, Words.red)
          THEN "exterior_color"
        ELSE IF AnyContains(labels, Words.euro6) /\ AnyContains(labels, Words.euro5)
          THEN "euroclass"
        ELSE IF AnyContains(labels, Words.petrol) /\ AnyContains(labels, Words.diesel)
          THEN "fuel_type"
        ELSE "None"

_identify_filter_type(options) ==
    LET labels == [i \in DOMAIN options |-> LowerStr(options[i].label)]
        values == [i \in DOMAIN options |-> options[i].value]
    IN  IF AnyContains(labels, Words.petrol) /\ AnyContains(labels, Words.diesel)
          THEN "fuel_type"
        ELSE IF AnyContains(labels, Words.euro6) /\ AnyContains(labels, Words.euro5)
          THEN "euroclass"
        ELSE IF Among(labels, Words.silver) /\ Among(labels, Words.black) /\ Among(labels, Words.red)
          THEN "exterior_color"
        ELSE IF Among(labels, Words.metallic) /\ Among(labels, Words.matt)
          THEN "exterior_color_type"
        ELSE IF Among(labels, Words.beige) /\ Among(labels, Words.grey) /\ Among(labels, Words.twoTone)
          THEN "interior_color"
        ELSE IF Among(labels, Words.alcantara) /\ Among(labels, Words.velvet)
          THEN "interior_type"
        ELSE IF Among(labels, Words.withPhotos)
          THEN "media_types"
        ELSE IF AnyContains(labels, Words.overOneYear)
          THEN "kteo"
        ELSE IF Among(labels, Words.oddPlate) /\ Among(labels, Words.evenPlate)
          THEN "number_plate_ending"
        ELSE IF Among(labels, Words.audi) /\ Among(labels, Words.bmw)
          THEN "make"
        ELSE IF Among(labels, Words.doors23) /\ Among(labels, Words.doors45)
          THEN "doors"
        ELSE IF /\ Among(values, <<"2">>) /\ Among(values, <<"4">>) /\ Among(values, <<"5">>)
                /\ Len(values) > 5
          THEN "seats"
        ELSE "None"

\* the table value_map of _parse_button_group
value_map ==
    (Words.manual :> <<"m">>) @@ (Words.automatic :> <<"a">>) @@ (Words.dealer :> <<"d">>)
        @@ (Words.allButton :> <<>>)

\* btn.get('value') or value_map.get(text)
ButtonValue(btn) ==
    IF btn.value # <<>> THEN btn.value
    ELSE IF btn.text \in DOMAIN value_map THEN value_map[btn.text]
    ELSE <<>>

\* the options of the buttons of a container; no container, no buttons
RECURSIVE _parse_button_group(_)
_parse_button_group(buttons) ==
    IF buttons = <<>> THEN <<>>
    ELSE (IF Strip(Head(buttons).text) # <<>> /\ ButtonValue(Head(buttons)) # <<>>
            THEN <<FilterOption(Strip(Head(buttons).text), ButtonValue(Head(buttons)), PyNone)>>
            ELSE <<>>)
            \o _parse_button_group(Tail(buttons))

\* the order of two labels of lower-case letters
RECURSIVE StrLess(_, _)
StrLess(a, b) ==
    IF b = <<>> THEN FALSE
    ELSE IF a = <<>> THEN TRUE
    ELSE IF Head(a) = Head(b) THEN StrLess(Tail(a), Tail(b))
    ELSE (CHOOSE i \in DOMAIN LowerCase : LowerCase[i] = Head(a))
            < (CHOOSE i \in DOMAIN LowerCase : LowerCase[i] = Head(b))

\* sorted(options, key=lambda x: x.label): a stable sort
RECURSIVE InsertByLabel(_, _)
InsertByLabel(sorted, o) ==
    IF sorted = <<>> THEN <<o>>
    ELSE IF StrLess(o.label, Head(sorted).label) THEN <<o>> \o sorted
    ELSE <<Head(sorted)>> \o InsertByLabel(Tail(sorted), o)

RECURSIVE SortByLabel(_)
SortByLabel(options) ==
    IF options = <<>> THEN <<>>
    ELSE InsertByLabel(SortByLabel(SubSeq(options, 1, Len(options) - 1)),
                       options[Len(options)])

\* the checkboxes with a value of three digits or more, the first of each value
RECURSIVE FeatureOptions(_, _)
FeatureOptions(boxes, seen) ==
    IF boxes = <<>> THEN <<>>
    ELSE LET val == Head(boxes).value
             ok == /\ val # <<>> /\ AllDigits(val) /\ Len(val) >= 3 /\ val \notin seen
         IN  (IF ok THEN <<FilterOption(Strip(Head(boxes).text), val, PyNone)>> ELSE <<>>)
                \o FeatureOptions(Tail(boxes), IF ok THEN seen \cup {val} ELSE seen)

_parse_features(pg) == SortByLabel(FeatureOptions(pg.checkboxes, {}))

FilterDefinition(query_param, type, options) ==
    [query_param |-> query_param, type |-> type, options |-> options]

button_configs == <<"gearbox_type", "drive_type", "seller_type", "crashed", "audit_options">>

ranges == <<"price", "registration", "mileage", "engine_size", "engine_power">>

\* filters[key] = definition
Put(fs, key, definition) == (key :> definition) @@ fs

\* line 177: filter_type and filter_type not in filters
NotYetInAlways(filter_type, fs) == TRUE

NotYetIn(filter_type, fs) == filter_type \notin DOMAIN fs

\* the select controls tried
Selects ==
    {<<[value |-> <<"1">>, text |-> <<"Β", "ε", "ν", "ζ", "ί", "ν", "η", " ", "(", "1", "2", "0", ")">>],
      [value |-> <<"2">>, text |-> <<"Π", "ε", "τ", "ρ", "έ", "λ", "α", "ι", "ο", " ", "(", "3", "0", "0", ")">>]>>,
     <<[value |-> <<>>, text |-> <<"Ό", "λ", "α">>],
      [value |-> <<"1">>, text |-> <<" ", "Β", "ε", "ν", "ζ", "ί", "ν", "η", " ", "(", "1", ".", "2", "3", "4", ")", " ">>],
      [value |-> <<"2">>, text |-> <<"Π", "ε", "τ", "ρ", "έ", "λ", "α", "ι", "ο", " ", "(", "1", "2", ")">>],
      [value |-> <<"3">>, text |-> <<"Α", "έ", "ρ", "ι", "ο", " ", "(", "L", "P", "G", ")", " ", "-", " ", "β", "ε", "ν", "ζ", "ί", "ν", "η", " ", "(", "7", ")">>]>>,
     <<[value |-> <<"1">>, text |-> <<"Β", "ε", "ν", "ζ", "ί", "ν", "η", " ", "(", "5", ")", " ", "(", "1", "2", "0", ")">>],
      [value |-> <<"2">>, text |-> <<"Π", "ε", "τ", "ρ", "έ", "λ", "α", "ι", "ο", " ", "(", "3", "0", "0", ")">>]>>,
     <<[value |-> <<"1">>, text |-> <<"Β", "ε", "ν", "ζ", "ί", "ν", "η", " ", "E", "u", "r", "o", " ", "6", " ", "(", "9", ")">>],
      [value |-> <<"2">>, text |-> <<"Π", "ε", "τ", "ρ", "έ", "λ", "α", "ι", "ο", " ", "E", "u", "r", "o", " ", "5", " ", "(", "8", ")">>]>>,
     <<[value |-> <<"6">>, text |-> <<"E", "u", "r", "o", " ", "6", " ", "(", "3", ")">>],
      [value |-> <<"5">>, text |-> <<"E", "u", "r", "o", " ", "5", " ", "(", "4", ")">>]>>,
     <<[value |-> <<"a">>, text |-> <<"A", "u", "d", "i", " ", "(", "1", "0", ")">>],
      [value |-> <<"b">>, text |-> <<"B", "M", "W", " ", "(", "2", "0", ")">>],
      [value |-> <<"m">>, text |-> <<"Μ", "ά", "ρ", "κ", "α">>]>>,
     <<[value |-> <<"x">>, text |-> <<"F", "o", "o", " ", "(", "1", ")">>]>>,
     <<[value |-> <<>>, text |-> <<"Ό", "λ", "α">>],
      [value |-> <<"1">>, text |-> <<"-">>]>>}

\* select controls for the signature rules of lines 80-113: rule[k] holds
\* the options that satisfy the k-th rule and no other; the controls tried
\* hold the options of one rule, of two rules in either order, of the k-th
\* and every later rule, and options that come close to several rules and
\* satisfy none
SignatureSelects ==
    LET rule ==
            <<<<[value |-> <<"v">>, text |-> <<"Β", "ε", "ν", "ζ", "ί", "ν", "η", " ", "(", "1", "2", "0", ")">>],
               [value |-> <<"v">>, text |-> <<"Π", "ε", "τ", "ρ", "έ", "λ", "α", "ι", "ο", " ", "(", "3", "0", "0", ")">>]>>,
             <<[value |-> <<"v">>, text |-> <<"E", "u", "r", "o", " ", "6", " ", "(", "3", ")">>],
               [value |-> <<"v">>, text |-> <<"E", "u", "r", "o", " ", "5", " ", "(", "4", ")">>]>>,
             <<[value |-> <<"v">>, text |-> <<"Α", "σ", "η", "μ", "ί", " ", "(", "7", ")">>],
               [value |-> <<"v">>, text |-> <<"Μ", "α", "ύ", "ρ", "ο">>],
               [value |-> <<"v">>, text |-> <<"Κ", "ό", "κ", "κ", "ι", "ν", "ο", " ", "(", "1", ".", "2", "0", "0", ")">>]>>,
             <<[value |-> <<"v">>, text |-> <<"Μ", "ε", "τ", "α", "λ", "λ", "ι", "κ", "ό">>],
               [value |-> <<"v">>, text |-> <<"Μ", "α", "τ", " ", "(", "2", ")">>]>>,
             <<[value |-> <<"v">>, text |-> <<"Μ", "π", "ε", "ζ">>],
               [value |-> <<"v">>, text |-> <<"Γ", "κ", "ρ", "ι", " ", "(", "5", ")">>],
               [value |-> <<"v">>, text |-> <<"Δ", "ί", "χ", "ρ", "ω", "μ", "ο">>]>>,
             <<[value |-> <<"v">>, text |-> <<"A", "l", "c", "a", "n", "t", "a", "r", "a", " ", "(", "9", ")">>],
               [value |-> <<"v">>, text |-> <<"Β", "ε", "λ", "ο", "ύ", "δ", "ο">>]>>,
             <<[value |-> <<"v">>, text |-> <<"Μ", "ε", " ", "φ", "ω", "τ", "ο", "γ", "ρ", "α", "φ", "ί", "ε", "ς">>]>>,
             <<[value |-> <<"v">>, text |-> <<"Π", "ά", "ν", "ω", " ", "α", "π", "ό", " ", "1", " ", "χ", "ρ", "ό", "ν", "ο", " ", "(", "4", "0", ")">>]>>,
             <<[value |-> <<"v">>, text |-> <<"Μ", "ο", "ν", "ή">>],
               [value |-> <<"v">>, text |-> <<"Ζ", "υ", "γ", "ή">>]>>,
             <<[value |-> <<"v">>, text |-> <<"A", "u", "d", "i", " ", "(", "1", "0", ")">>],
               [value |-> <<"v">>, text |-> <<"B", "M", "W", " ", "(", "2", "0", ")">>]>>,
             <<[value |-> <<"v">>, text |-> <<"2", "/", "3", " ", "(", "6", ")">>],
               [value |-> <<"v">>, text |-> <<"4", "/", "5">>]>>,
             <<[value |-> <<"1">>, text |-> <<"1", " ", "θ", "έ", "σ", "ε", "ι", "ς">>],
               [value |-> <<"2">>, text |-> <<"2", " ", "θ", "έ", "σ", "ε", "ι", "ς">>],
               [value |-> <<"3">>, text |-> <<"3", " ", "θ", "έ", "σ", "ε", "ι", "ς">>],
               [value |-> <<"4">>, text |-> <<"4", " ", "θ", "έ", "σ", "ε", "ι", "ς">>],
               [value |-> <<"5">>, text |-> <<"5", " ", "θ", "έ", "σ", "ε", "ι", "ς">>],
               [value |-> <<"6">>, text |-> <<"6", " ", "θ", "έ", "σ", "ε", "ι", "ς">>]>>>>
        nearMiss ==
            <<[value |-> <<"2">>, text |-> <<"Α", "σ", "η", "μ", "ί", " ", "μ", "ε", "τ", "α", "λ", "λ", "ι", "κ", "ό">>],
               [value |-> <<"4">>, text |-> <<"Μ", "α", "ύ", "ρ", "ο">>],
               [value |-> <<"5">>, text |-> <<"Κ", "ό", "κ", "κ", "ι", "ν", "ο">>],
               [value |-> <<"v">>, text |-> <<"Μ", "α", "τ">>],
               [value |-> <<"v">>, text |-> <<"A", "u", "d", "i", " ", "A", "4">>]>>
        RECURSIVE From(_)
        From(k) == IF k > Len(rule) THEN <<>> ELSE rule[k] \o From(k + 1)
    IN  {rule[k] : k \in DOMAIN rule}
            \cup {rule[i] \o rule[j] : i, j \in DOMAIN rule}
            \cup {From(k) : k \in DOMAIN rule}
            \cup {nearMiss}

ButtonSets ==
    {[id \in {"gearbox_type", "drive_type", "seller_type", "crashed", "audit_options"} |-> <<>>],
     [id \in {"gearbox_type", "drive_type", "seller_type", "crashed", "audit_options"} |->
        IF id = "gearbox_type"
          THEN <<[text |-> Words.manual, value |-> <<>>], [text |-> Words.automatic, value |-> <<>>],
                 [text |-> Words.allButton, value |-> <<>>], [text |-> <<"z">>, value |-> <<>>]>>
          ELSE <<[text |-> Words.dealer, value |-> <<>>], [text |-> <<"z">>, value |-> <<"v">>]>>]}

CheckboxSets ==
    {<<>>,
     <<[value |-> <<"1", "2", "3">>, text |-> <<"b">>], [value |-> <<"4", "5">>, text |-> <<"a">>],
       [value |-> <<"1", "2", "3">>, text |-> <<"c">>], [value |-> <<"2", "0", "0">>, text |-> <<"a", "b">>],
       [value |-> <<"3", "0", "0">>, text |-> <<"a">>]>>}

ClassifyIdle ==
    /\ page = [selects |-> <<>>, buttons |-> NoItems, checkboxes |-> <<>>]
    /\ filters = NoItems
    /\ clsPc = "idle"
    /\ clsIdx = 0

\* FilterDiscoveryParser.__init__, then get_filters line 169
ClassifyInit ==
    /\ page \in [selects : StringsUpTo(Selects, MaxSelects)
                                \cup {<<select>> : select \in SignatureSelects},
                 buttons : ButtonSets,
                 checkboxes : CheckboxSets]
    /\ filters = NoItems
    /\ clsPc = "selects"
    /\ clsIdx = 1

\* one round of the loop over the select controls, lines 171-198
classify_select ==
    /\ clsPc = "selects"
    /\ clsIdx <= Len(page.selects)
    /\ LET opts == _parse_options_from_select(page.selects[clsIdx])
           filter_type == _identify_filter_type(opts)
       IN  filters' = IF opts # <<>> /\ filter_type # "None" /\ NotYetIn(filter_type, filters)
                        THEN Put(filters, filter_type,
                                 FilterDefinition(filter_type, "select", opts))
                        ELSE filters
    /\ clsIdx' = clsIdx + 1
    /\ UNCHANGED <<page, clsPc>>
    /\ UNCHANGED notClassify

\* a loop is over: on to the next part of get_filters
next_part ==
    /\ \/ clsPc = "selects" /\ clsIdx > Len(page.selects) /\ clsPc' = "buttons"
       \/ clsPc = "buttons" /\ clsIdx > Len(button_configs) /\ clsPc' = "features"
       \/ clsPc = "ranges" /\ clsIdx > Len(ranges) /\ clsPc' = "done"
    /\ clsIdx' = 1
    /\ UNCHANGED <<page, filters>>
    /\ UNCHANGED notClassify

\* one round of the loop over button_configs, lines 208-216
button_group ==
    /\ clsPc = "buttons"
    /\ clsIdx <= Len(button_configs)
    /\ LET div_id == button_configs[clsIdx]
           opts == _parse_button_group(page.buttons[div_id])
       IN  filters' = IF opts # <<>>
                        THEN Put(filters, div_id, FilterDefinition(div_id, "button_group", opts))
                        ELSE filters
    /\ clsIdx' = clsIdx + 1
    /\ UNCHANGED <<page, clsPc>>
    /\ UNCHANGED notClassify

\* lines 218-225
features ==
    /\ clsPc = "features"
    /\ filters' = IF _parse_features(page) # <<>>
                    THEN Put(filters, "feature",
                             FilterDefinition("feature", "checkbox", _parse_features(page)))
                    ELSE filters
    /\ clsPc' = "ranges"
    /\ clsIdx' = 1
    /\ UNCHANGED page
    /\ UNCHANGED notClassify

\* one round of the loop over ranges, lines 234-240
range_filter ==
    /\ clsPc = "ranges"
    /\ clsIdx <= Len(ranges)
    /\ filters' = Put(filters, ranges[clsIdx],
                      FilterDefinition(ranges[clsIdx], "range", <<>>))
    /\ clsIdx' = clsIdx + 1
    /\ UNCHANGED <<page, clsPc>>
    /\ UNCHANGED notClassify

ClassifyNext ==
    \/ classify_select
    \/ next_part
    \/ button_group
    \/ features
    \/ range_filter

Init == CacheInit /\ FetchIdle /\ CoerceIdle /\ ParseIdle /\ ClassifyIdle

Next == CacheNext

Spec == Init /\ [][Next]_vars

SpecFetch == Init /\ [][FetchNext]_vars

InitCoerce == CacheInit /\ FetchIdle /\ CoerceInit /\ ParseIdle /\ ClassifyIdle

SpecCoerce == InitCoerce /\ [][CoerceNext]_vars

InitParse == CacheInit /\ FetchIdle /\ CoerceIdle /\ ParseInit /\ ClassifyIdle

SpecParse == InitParse /\ [][ParseNext]_vars

InitClassify == CacheInit /\ FetchIdle /\ CoerceIdle /\ ParseIdle /\ ClassifyInit

SpecClassify == InitClassify /\ [][ClassifyNext]_vars

(***************************************************************************)
(* Properties of the cache (checked under Spec).                           *)
(***************************************************************************)
\* C1: a get(force_refresh=false) that finds the time-bounded entry unexpired
\* goes to the hit branch without calling the producer, and, the entry still
\* being unexpired when it is read, returns that very catalog and leaves the
\* entry and the producer call count as they were.
C1_HitServesEntry ==
    [][\A t \in Threads :
        /\ (pc[t] = "check" /\ pc'[t] # "check" /\ ~force[t]
                /\ entryVal # None /\ ttlLeft > 0)
              => (pc'[t] = "hit" /\ producerCalls' = producerCalls)
        /\ (pc[t] = "hit" /\ pc'[t] = "done" /\ entryVal # None /\ ttlLeft > 0)
              => /\ ret'[t] = Return(entryVal)
                 /\ entryVal = lastGood
                 /\ entryVal' = entryVal
                 /\ outcome'[t] = "none"
                 /\ producerCalls' = producerCalls]_vars

\* a second get() was served from the entry the first one stored: one
\* producer call in all
C1_Witness ==
    \E t \in Threads :
        /\ pc[t] = "done" /\ op[t] = "get" /\ ~force[t]
        /\ outcome[t] = "none"
        /\ ret[t] = Return(lastGood) /\ lastGood # None
        /\ opsStarted >= 2 /\ producerCalls = 1

\* C2: once a producer call has succeeded, a refresh whose producer call
\* raises returns the result of the latest successful producer call; it does
\* not raise.
C2_DegradesToLastGood ==
    [][\A t \in Threads :
        (pc[t] = "except" /\ pc'[t] = "done" /\ lastGood # None)
            => ret'[t] = Return(lastGood)]_vars

\* one success, then two refreshes in a row whose producer call raised, both
\* served the snapshot
C2_Witness ==
    \E t, u \in Threads :
        /\ t # u
        /\ pc[t] = "done" /\ outcome[t] = "raises"
        /\ pc[u] = "done" /\ outcome[u] = "raises"
        /\ lastGood # None
        /\ ret[t] = Return(lastGood) /\ ret[u] = Return(lastGood)
        /\ missWhy[t] = "forced" /\ missWhy[u] \in {"expired", "absent"}

\* C3: while no producer call has succeeded, a refresh whose producer call
\* raises propagates the exception and leaves the cache without an entry and
\* without a snapshot.
C3_ColdFailurePropagates ==
    [][\A t \in Threads :
        (pc[t] = "except" /\ pc'[t] = "done" /\ lastGood = None)
            => /\ ret'[t] = Raise("FetcherError")
               /\ entryVal' = None
               /\ staleData' = None]_vars

C3_Witness ==
    \E t \in Threads :
        /\ pc[t] = "done" /\ op[t] = "get" /\ outcome[t] = "raises"
        /\ ret[t] = Raise("FetcherError")
        /\ lastGood = None /\ entryVal = None /\ staleData = None

\* C4: clear() removes the time-bounded entry and leaves the last-good
\* snapshot as it was, so a get() that finds no entry after it and whose
\* producer call raises returns the snapshot.
C4_ClearKeepsSnapshot ==
    [][\A t \in Threads :
        /\ (pc[t] = "clear" /\ pc'[t] = "done")
              => (entryVal' = None /\ staleData' = staleData)
        /\ (pc[t] = "except" /\ pc'[t] = "done" /\ op[t] = "get"
                /\ missWhy[t] = "absent" /\ lastGood # None)
              => (ret'[t] = Return(lastGood) /\ staleData = lastGood)]_vars

\* a non-forced get() found the entry gone although a producer call had
\* succeeded (clear() removed it), its producer call raised, and it returned
\* the snapshot
C4_Witness ==
    \E t \in Threads :
        /\ pc[t] = "done" /\ op[t] = "get" /\ ~force[t]
        /\ missWhy[t] = "absent" /\ outcome[t] = "raises"
        /\ staleData # None /\ ret[t] = Return(staleData)
        /\ entryVal = None

\* C5: warm() returns a boolean, False whenever the producer call of its
\* forced refresh raised and True only when that call succeeded.
C5_WarmReportsRefresh ==
    \A t \in Threads :
        (pc[t] = "done" /\ op[t] = "warm")
            => /\ warmRet[t] \in {"True", "False"}
               /\ (outcome[t] = "raises" => warmRet[t] = "False")
               /\ (warmRet[t] = "True" => outcome[t] \in {"ok", "page_fetch_fails"})

\* C6: at most one producer call is in progress at any time, and whatever a
\* get() returns is the complete result of some producer call.
C6_OneRefreshAtATime ==
    /\ Cardinality({t \in Threads : pc[t] = "in_fetcher"}) <= 1
    /\ \A t \in Threads :
          (pc[t] = "done" /\ op[t] \in {"get", "warm"} /\ ret[t].kind = "return")
              => ret[t].val \in produced

\* a producer call is in progress while another thread waits for the lock
\* in its own get()
C6_Witness ==
    \E t, u \in Threads :
        /\ t # u
        /\ pc[t] = "in_fetcher"
        /\ pc[u] = "lock" /\ op[u] = "get"
        /\ produced # {}

\* C7: when the fetch of the search page fails inside the producer, the
\* producer fails, the refresh takes its except branch, and nothing of the
\* refresh changes the entry or the snapshot.
C7_PageFetchFailureIsHard ==
    [][\A t \in Threads :
        /\ (pc[t] = "in_fetcher" /\ outcome'[t] = "page_fetch_fails")
              => pc'[t] = "except"
        /\ (outcome[t] = "page_fetch_fails" /\ pc[t] # "done")
              => (entryVal' = entryVal /\ staleData' = staleData)]_vars

(***************************************************************************)
(* Properties of fetch_with_retry (checked under SpecFetch).               *)
(***************************************************************************)
Response(s) == [cause |-> "response", status |-> s]

FetchEnded == fPc \in {"returned", "raised"}

\* the error the k-th session.get of this run raised
ErrorOfAttempt(k) ==
    [attempt |-> k,
     cause |-> IF fOutcomes[k].cause = "fault" THEN "fault" ELSE "status",
     status |-> fOutcomes[k].status]

\* C8: against an upstream that answers every attempt with 500,
\* fetch_with_retry never returns a response, makes no more than max_retries
\* attempts, and raises after exactly max_retries attempts.
C8_Always500Exhausts ==
    (fOutcomes # <<>> /\ \A i \in 1..Len(fOutcomes) : fOutcomes[i] = Response(500))
        => /\ fPc # "returned"
           /\ Len(fOutcomes) <= MaxRetries
           /\ (fPc = "raised" => Len(fOutcomes) = MaxRetries)
           /\ (Len(fOutcomes) = MaxRetries => fPc \in {"except", "raised"})

C8_Witness ==
    /\ fPc = "raised"
    /\ fOutcomes = <<Response(500), Response(500), Response(500)>>

Script429 == <<Response(429), Response(429), Response(200)>>

\* C9: a run whose upstream answers 429, 429, 200 ends only after the third
\* attempt, and ends returning the 200 response of that attempt.
C9_TwoRateLimitsThenOk ==
    (/\ FetchEnded
     /\ Len(fOutcomes) <= 3
     /\ \A i \in 1..Len(fOutcomes) : fOutcomes[i] = Script429[i])
        => /\ fOutcomes = Script429
           /\ fPc = "returned"
           /\ fResult = [attempt |-> 3, status |-> 200]

C9_Witness == fPc = "returned" /\ fOutcomes = Script429

\* C10: when every attempt failed with a transport fault or a non-429 error
\* status, the exception raised is the one of the last, max_retries-th,
\* attempt.
C10_LastErrorReraised ==
    (/\ fPc = "raised"
     /\ \A i \in 1..Len(fOutcomes) :
           fOutcomes[i].cause = "fault" \/ fOutcomes[i].status \in {404, 500})
        => /\ Len(fOutcomes) = MaxRetries
           /\ fError = ErrorOfAttempt(MaxRetries)

C10_Witness ==
    /\ fPc = "raised"
    /\ fOutcomes = <<Response(500), [cause |-> "fault", status |-> 0], Response(404)>>
    /\ fError = [attempt |-> 3, cause |-> "status", status |-> 404]

\* C11: a 429 uses one slot of the attempt budget: no run makes more than
\* max_retries attempts, no run returns a 429 response, a run that has ended
\* with a 429 as its last answer made max_retries attempts (a 429 on an
\* earlier attempt is followed by another attempt) and ended raising.
C11_RateLimitUsesBudget ==
    /\ Len(fOutcomes) <= MaxRetries
    /\ (fPc = "returned" => fResult.status # 429)
    /\ (FetchEnded /\ fOutcomes # <<>> /\ fOutcomes[Len(fOutcomes)] = Response(429))
          => (Len(fOutcomes) = MaxRetries /\ fPc = "raised")

C11_Witness ==
    /\ fPc = "raised"
    /\ fOutcomes = <<Response(429), Response(429), Response(429)>>
    /\ fError = ExhaustedError

\* the sleeps made between attempt k-1 and attempt k, in order
SleepsBefore(k) == SelectSeq(fSleeps, LAMBDA sl : sl.after = k - 1)

RECURSIVE TotalSecs(_)
TotalSecs(sleeps) ==
    IF sleeps = <<>> THEN 0 ELSE Head(sleeps).secs + TotalSecs(Tail(sleeps))

OrdinaryFailure(o) == o.cause = "fault" \/ o.status \in {404, 500}

\* C19: attempt 1 is issued without a wait, and the wait before attempt
\* k >= 2 that follows an ordinary failure of attempt k-1 is
\* base_delay * 2^(k-2).
C19_BackoffSchedule ==
    \A k \in 1..Len(fOutcomes) :
        /\ (k = 1 => SleepsBefore(k) = <<>>)
        /\ (k >= 2 /\ OrdinaryFailure(fOutcomes[k - 1]))
              => TotalSecs(SleepsBefore(k)) = RetryBaseDelay * (2 ^ (k - 2))

\* C20: the wait before an attempt that follows a 429 is one delay drawn
\* from the rate-limit window, with no exponential backoff delay.
C20_RateLimitWaitOnly ==
    \A k \in 2..Len(fOutcomes) :
        fOutcomes[k - 1] = Response(429)
            => /\ Len(SleepsBefore(k)) = 1
               /\ SleepsBefore(k)[1].why = "rate_limit"
               /\ SleepsBefore(k)[1].secs \in RateLimitDelayLo..RateLimitDelayHi

\* C18: a refresh whose producer call raises writes nothing: the entry, its
\* remaining lifetime and the snapshot are the same after each of its steps
\* as before, so an absent or expired entry stays so and the next get()
\* calls the producer again.
C18_FailedRefreshChangesNothing ==
    [][\A t \in Threads :
        /\ ((pc[t] = "in_fetcher" /\ pc'[t] = "except")
              \/ (pc[t] = "except" /\ pc'[t] = "done"))
              => (entryVal' = entryVal /\ ttlLeft' = ttlLeft
                    /\ staleData' = staleData)
        /\ (pc[t] = "check" /\ pc'[t] # "check" /\ ~KeyInCache)
              => pc'[t] = "fetch"]_vars

\* a refresh failed and served the snapshot while the entry was expired; the
\* entry is still not in the cache and the next get() is in the producer
C18_Witness ==
    \E t, u \in Threads :
        /\ t # u
        /\ pc[u] = "done" /\ outcome[u] = "raises" /\ ret[u] = Return(staleData)
        /\ missWhy[u] = "expired" /\ staleData # None
        /\ ~KeyInCache
        /\ pc[t] = "in_fetcher" /\ ~force[t] /\ missWhy[t] = "expired"

(***************************************************************************)
(* Numeric coercion                                                        *)
(***************************************************************************)
\* digits grouped by '.', as the source locale writes an integer
LocaleInt(s) ==
    /\ s # <<>>
    /\ \A i \in 1..Len(s) : s[i] \in Digits \cup {"."}
    /\ s[1] \in Digits /\ s[Len(s)] \in Digits
    /\ \A i \in 1..(Len(s) - 1) : ~(s[i] = "." /\ s[i + 1] = ".")

\* an integer part in the locale's writing, then ',' and decimals
LocaleFloat(s) ==
    \E c \in 1..Len(s) :
        /\ s[c] = ","
        /\ LocaleInt(SubSeq(s, 1, c - 1))
        /\ c < Len(s)
        /\ AllDigits(SubSeq(s, c + 1, Len(s)))

DigitsIn(s) == SelectSeq(s, LAMBDA c : c \in Digits)

DecimalsIn(s) == Len(s) - (CHOOSE c \in 1..Len(s) : s[c] = ",")

\* no digit in it: None, a list, a string without digits
NonNumeric(v) ==
    \/ v.kind \in {"null", "list"}
    \/ v.kind = "str" /\ DigitsIn(v.s) = <<>>

\* C16 (integers): safe_int of digits grouped by '.' is the number the
\* digits denote ("12.345" gives 12345).
C16_IntegerLocale ==
    (cFn = "safe_int" /\ cIn.kind = "str" /\ LocaleInt(cIn.s))
        => cOut = PyInt(DigitsToNat(DigitsIn(cIn.s)))

\* C16 (floats): safe_float reads '.' as thousands separator and ',' as
\* decimal point ("12.345,67" gives 12345.67).
C16_FloatLocale ==
    (cFn = "safe_float" /\ cIn.kind = "str" /\ LocaleFloat(cIn.s))
        => cOut = PyFloat(DigitsToNat(DigitsIn(cIn.s)), DecimalsIn(cIn.s))

\* C16 (whole claim): numeric coercion follows the source locale, and every
\* non-numeric input (None included) coerces to None without raising.
C16_LocaleCoercion ==
    /\ C16_IntegerLocale
    /\ C16_FloatLocale
    /\ (cFn # "none" /\ NonNumeric(cIn)) => cOut = PyNone

(***************************************************************************)
(* Field extraction                                                        *)
(***************************************************************************)
\* the numeric coercion a descriptor declares
Coerced(d, v) ==
    CASE d.cls = "FloatParser" -> safe_float(v)
      [] d.cls = "IntParser" -> safe_int(v)
      [] OTHER -> v

\* what the walk along the field's path reaches
PathValue == WalkPath(json_data, FIELD_PARSERS[field].path)

\* the field is resolved, its descriptor has a path, the walk reached a value
HasPathValue ==
    /\ parsePc = "done"
    /\ field \in DOMAIN FIELD_PARSERS
    /\ FIELD_PARSERS[field].path # <<>>
    /\ PathValue # PyNone

\* C12 as stated: every field with a structured-data path whose walk reaches
\* a non-null value resolves to that value (after the descriptor's numeric
\* coercion), whatever the text pattern matches.
C12_StructuredDataWins ==
    HasPathValue => parsed = Coerced(FIELD_PARSERS[field], PathValue)

\* C12 amended: structured data wins for every field with a path except
\* release_date, where a match of the text pattern wins and gives
\* "month/year", and description, where an empty (falsy) value gives way to
\* the DOM's description block.
C12_StructuredDataWinsButDate ==
    HasPathValue =>
        CASE field = "release_date" ->
                IF meta # <<>> THEN parsed = PyStr(meta[1] \o <<"/">> \o meta[2])
                ELSE parsed = PathValue
          [] field = "description" ->
                IF Truthy(PathValue) THEN parsed = PathValue
                ELSE parsed = soup.description
          [] OTHER -> parsed = Coerced(FIELD_PARSERS[field], PathValue)

\* km: the path holds "45.000", the pattern captures "99.999", result 45000.0
C12_Witness ==
    /\ HasPathValue
    /\ field = "km"
    /\ PathValue = PyStr(<<"4", "5", ".", "0", "0", "0">>)
    /\ meta = <<<<"9", "9", ".", "9", "9", "9">>>>
    /\ parsed = PyFloat(45000, 0)

\* C13: resolving a field never raises to the caller: each registered parser,
\* and _is_dealer, returns a value or None whatever 'offers', 'seller',
\* 'brand' or a path segment holds.
C13_FieldNeverRaises == parsePc = "done" => parsed.kind # "raise"

(***************************************************************************)
(* Model inference                                                         *)
(***************************************************************************)
JsonModel == DictGet(json_data, "model", PyNone)

JsonTitle == DictGet(json_data, "name", PyNone)

JsonMake == DictGet(json_data, "manufacturer", PyNone)

\* brand.name when brand is a mapping
BrandName ==
    IF DictGet(json_data, "brand", EmptyDict).kind = "dict"
      THEN DictGet(DictGet(json_data, "brand", EmptyDict), "name", PyNone)
      ELSE PyNone

IsText(v) == v.kind = "str" /\ v.s # <<>>

IsYearToken(tok) ==
    Len(tok) = 4 /\ AllDigits(tok) /\ SubSeq(tok, 1, 2) \in {<<"1", "9">>, <<"2", "0">>}

IsStopToken(tok) == \E k \in DOMAIN StopWords : LowerStr(tok) = LowerStr(StopWords[k])

\* the tokens of the title that are neither the manufacturer name, nor a
\* year, nor a stoplist word
Remaining(title, make) ==
    SelectSeq(Split(title),
              LAMBDA tok : /\ LowerStr(tok) # LowerStr(make)
                           /\ ~IsYearToken(tok)
                           /\ ~IsStopToken(tok))

FirstRemaining(title, make) ==
    IF Remaining(title, make) = <<>> THEN PyNone ELSE PyStr(Remaining(title, make)[1])

\* a title of words of letters and digits in which the manufacturer name, a
\* word itself, stands only as a whole word
WordTitle(title, make) ==
    /\ \A i \in 1..Len(make) : IsWordChar(make[i])
    /\ \A i \in 1..Len(title) : IsWordChar(title[i]) \/ IsSpace(title[i])
    /\ \A k \in 1..Len(Split(title)) :
            \/ LowerStr(Split(title)[k]) = LowerStr(make)
            \/ \A i \in 1..Len(Split(title)[k]) : ~LiteralAt(Split(title)[k], i, make)

ModelInferred == parsePc = "done" /\ field = "model" /\ ~Truthy(JsonModel)

\* C17 as stated: without a model value, the model is the first token of the
\* title left after removing the manufacturer name, the year tokens and the
\* stoplist words; it is absent when nothing is left or when the structured
\* data has no title or no manufacturer; it never raises.
C17_InferredModel ==
    ModelInferred =>
        /\ parsed.kind # "raise"
        /\ (IsText(JsonTitle) /\ IsText(JsonMake) /\ WordTitle(JsonTitle.s, JsonMake.s))
                => parsed = FirstRemaining(JsonTitle.s, JsonMake.s)
        /\ (~Truthy(JsonTitle) \/ ~Truthy(JsonMake)) => parsed = PyNone

\* the title used: 'name', else the text of the page's <title>
TitleUsed == IF Truthy(JsonTitle) THEN JsonTitle ELSE soup.title

\* the manufacturer used: 'manufacturer', else 'brand.name'
MakeUsed == IF Truthy(JsonMake) THEN JsonMake ELSE BrandName

\* C17 amended: the title is 'name' or else the page's <title>, the
\* manufacturer is 'manufacturer' or else 'brand.name'; with both, the model
\* is the first token left after removing the manufacturer name, the tokens
\* 1900..2099 and the stoplist words; it is absent when nothing is left or
\* when no title or no manufacturer is found in either place; it never raises.
C17_InferredModelWithFallbacks ==
    ModelInferred =>
        /\ parsed.kind # "raise"
        /\ (IsText(TitleUsed) /\ IsText(MakeUsed) /\ WordTitle(TitleUsed.s, MakeUsed.s))
                => parsed = FirstRemaining(TitleUsed.s, MakeUsed.s)
        /\ (~Truthy(TitleUsed) \/ ~Truthy(MakeUsed)) => parsed = PyNone

\* {"name": "<<"B", "M", "W">> 320d 2019", "manufacturer": "<<"B", "M", "W">>"} gives "320d"
C17_Witness ==
    /\ ModelInferred
    /\ json_data = Merge(PyObj("name", PyStr(<<"B", "M", "W", " ", "3", "2", "0", "d", " ", "2", "0", "1", "9">>)), PyObj("manufacturer", PyStr(<<"B", "M", "W">>)))
    /\ parsed = PyStr(<<"3", "2", "0", "d">>)

(***************************************************************************)
(* Classification pass                                                     *)
(***************************************************************************)
\* C14: in one pass of get_filters each category key is written at most
\* once: a definition that is in the catalog is never replaced by a later
\* select, button group, feature group or range.
C14_FirstMatchWins ==
    [][\A key \in DOMAIN filters :
            key \in DOMAIN filters' /\ filters'[key] = filters[key]]_vars

\* two fuel selects with different options were passed, the first one stands
C14_Witness ==
    /\ clsPc = "done"
    /\ Len(page.selects) = 2
    /\ _identify_filter_type(_parse_options_from_select(page.selects[1])) = "fuel_type"
    /\ _identify_filter_type(_parse_options_from_select(page.selects[2])) = "fuel_type"
    /\ _parse_options_from_select(page.selects[1]) # _parse_options_from_select(page.selects[2])
    /\ filters["fuel_type"].options = _parse_options_from_select(page.selects[1])

\* the source options of a select that are not placeholders, texts stripped
Kept(select) ==
    LET kept == SelectSeq(select, LAMBDA o : ~IsSkipped(o))
    IN  [i \in DOMAIN kept |-> [value |-> kept[i].value, text |-> Strip(kept[i].text)]]

LastOpen(text) ==
    IF \E i \in DOMAIN text : text[i] = "("
      THEN CHOOSE i \in DOMAIN text : text[i] = "(" /\ \A j \in (i + 1)..Len(text) : text[j] # "("
      ELSE 0

\* the N of a trailing "(N)", <<>> when the text does not end so
TrailingCount(text) ==
    IF LastOpen(text) > 0 /\ text[Len(text)] = ")"
      THEN SubSeq(text, LastOpen(text) + 1, Len(text) - 1) ELSE <<>>

HasTrailingCount(text) ==
    /\ TrailingCount(text) # <<>>
    /\ TrailingCount(text)[1] \in Digits
    /\ \A i \in DOMAIN TrailingCount(text) : TrailingCount(text)[i] \in Digits \cup {"."}

\* a select whose labels hold the petrol and the diesel word, each label
\* ending in a count
FuelSelect(select) ==
    /\ \A i \in DOMAIN Kept(select) : HasTrailingCount(Kept(select)[i].text)
    /\ \E i \in DOMAIN Kept(select) : Contains(LowerStr(Kept(select)[i].text), Words.petrol)
    /\ \E i \in DOMAIN Kept(select) : Contains(LowerStr(Kept(select)[i].text), Words.diesel)

\* one option per kept source option: the label without its count suffix,
\* the count read with '.' as thousands separator
FuelOptions(select) ==
    [i \in DOMAIN Kept(select) |->
        FilterOption(Strip(SubSeq(Kept(select)[i].text, 1, LastOpen(Kept(select)[i].text) - 1)),
                     Kept(select)[i].value,
                     PyInt(DigitsToNat(DigitsIn(TrailingCount(Kept(select)[i].text)))))]

FirstSelectPassed ==
    page.selects # <<>> /\ (clsPc # "selects" \/ clsIdx > 1)

\* C15: a select whose labels hold the petrol and the diesel word, each
\* with a trailing "(N)", is classified fuel_type with one option per
\* non-placeholder source option, in source order, count N, label without
\* the count suffix.
C15_FuelSelectOptions ==
    (FirstSelectPassed /\ FuelSelect(page.selects[1])) =>
        /\ "fuel_type" \in DOMAIN filters
        /\ filters["fuel_type"].options = FuelOptions(page.selects[1])

\* C15 (the example): "Βενζίνη (120)", "Πετρέλαιο (300)" gives fuel_type
\* with the two options, counts 120 and 300, labels without suffix.
C15_Example ==
    (FirstSelectPassed /\ page.selects[1] = 
            <<[value |-> <<"1">>, text |-> <<"Β", "ε", "ν", "ζ", "ί", "ν", "η", " ", "(", "1", "2", "0", ")">>],
            [value |-> <<"2">>, text |-> <<"Π", "ε", "τ", "ρ", "έ", "λ", "α", "ι", "ο", " ", "(", "3", "0", "0", ")">>]>>) =>
        /\ "fuel_type" \in DOMAIN filters
        /\ filters["fuel_type"].options =
                <<FilterOption(<<"Β", "ε", "ν", "ζ", "ί", "ν", "η">>, <<"1">>, PyInt(120)),
                  FilterOption(<<"Π", "ε", "τ", "ρ", "έ", "λ", "α", "ι", "ο">>, <<"2">>, PyInt(300))>>


\* C21: release_date is "{month}/{year}" built from the two captures when the
\* text pattern matches the meta description, whatever modelDate holds; when
\* the pattern does not match it is what the walk to modelDate reaches; and
\* when that reaches nothing either it is absent.
C21_ReleaseDateOrder ==
    (parsePc = "done" /\ field = "release_date") =>
        IF meta # <<>>
          THEN parsed = PyStr(meta[1] \o <<"/">> \o meta[2])
          ELSE IF WalkPath(json_data, <<"modelDate">>) # PyNone
            THEN parsed = WalkPath(json_data, <<"modelDate">>)
            ELSE parsed = PyNone

\* the pattern captured 12 and 2020 while modelDate holds another value: the
\* field is "12/2020"
C21_Witness ==
    /\ parsePc = "done" /\ field = "release_date"
    /\ meta = <<<<"1", "2">>, <<"2", "0", "2", "0">>>>
    /\ WalkPath(json_data, <<"modelDate">>) = PyStr(<<"x">>)
    /\ parsed = PyStr(<<"1", "2", "/", "2", "0", "2", "0">>)


(***************************************************************************)
(* The priority of the signature rules                                     *)
(***************************************************************************)
\* the categories in the order the rules are stated
RuleOrder ==
    <<"fuel_type", "euroclass", "exterior_color", "exterior_color_type",
      "interior_color", "interior_type", "media_types", "kteo",
      "number_plate_ending", "make", "doors", "seats">>

\* the rules an option list satisfies, each taken on its own
Satisfied(options) ==
    LET labels == [i \in DOMAIN options |-> LowerStr(options[i].label)]
        values == [i \in DOMAIN options |-> options[i].value]
        has(w) == Among(labels, w)
        part(w) == AnyContains(labels, w)
    IN  {k \in DOMAIN RuleOrder :
            CASE k = 1 -> part(Words.petrol) /\ part(Words.diesel)
              [] k = 2 -> part(Words.euro6) /\ part(Words.euro5)
              [] k = 3 -> has(Words.silver) /\ has(Words.black) /\ has(Words.red)
              [] k = 4 -> has(Words.metallic) /\ has(Words.matt)
              [] k = 5 -> has(Words.beige) /\ has(Words.grey) /\ has(Words.twoTone)
              [] k = 6 -> has(Words.alcantara) /\ has(Words.velvet)
              [] k = 7 -> has(Words.withPhotos)
              [] k = 8 -> part(Words.overOneYear)
              [] k = 9 -> has(Words.oddPlate) /\ has(Words.evenPlate)
              [] k = 10 -> has(Words.audi) /\ has(Words.bmw)
              [] k = 11 -> has(Words.doors23) /\ has(Words.doors45)
              [] k = 12 -> /\ Among(values, <<"2">>) /\ Among(values, <<"4">>)
                           /\ Among(values, <<"5">>) /\ Len(values) > 5}

\* the earliest rule of a non-empty set of rules
Earliest(rules) == CHOOSE k \in rules : \A r \in rules : k <= r

\* the options of the select control the loop is at
OptionsHere == _parse_options_from_select(page.selects[clsIdx])

\* the loop over the select controls takes one control
SelectStep == clsPc = "selects" /\ clsIdx <= Len(page.selects) /\ clsIdx' = clsIdx + 1

\* C22: a select control whose options satisfy one or more signature rules is
\* given the category of the earliest of them in the stated order and no
\* other: its step adds no key but that one, and adds that one, with the
\* control's options, unless the catalog already holds it; a control whose
\* options satisfy no rule leaves the catalog as it was; no step fails.
C22_EarliestRuleWins ==
    [][SelectStep =>
        IF Satisfied(OptionsHere) = {}
          THEN filters' = filters
          ELSE LET key == RuleOrder[Earliest(Satisfied(OptionsHere))]
               IN  /\ DOMAIN filters' = DOMAIN filters \cup {key}
                   /\ \A k \in DOMAIN filters : filters'[k] = filters[k]
                   /\ key \notin DOMAIN filters =>
                        filters'[key] = FilterDefinition(key, "select", OptionsHere)]_vars

\* a control that satisfies the rules of exterior_color and make was filed
\* under exterior_color, and the pass ended with no make category
C22_Witness ==
    /\ clsPc = "done"
    /\ Len(page.selects) = 1
    /\ Satisfied(_parse_options_from_select(page.selects[1])) = {3, 10}
    /\ "exterior_color" \in DOMAIN filters
    /\ filters["exterior_color"].options = _parse_options_from_select(page.selects[1])
    /\ "make" \notin DOMAIN filters


(***************************************************************************)
(* The cache invariant and concurrent refreshes (checked under Spec).      *)
(***************************************************************************)
\* a refresh is between the return of its producer call (line 37) and the
\* end of line 40: it holds the lock and is writing the new catalog
Storing == \E t \in Threads : pc[t] \in {"store_cache", "store_stale"}

\* C23: after every sequence of get, warm, clear and expiry, and at every
\* moment but those inside the two writes of a successful refresh, an entry
\* that is in the cache comes with a snapshot holding the same catalog, which
\* is the result of the latest producer call that returned; and no step
\* resets a snapshot that is set.
C23_EntryMatchesSnapshot ==
    /\ [](KeyInCache /\ ~Storing
            => (staleData # None /\ staleData = entryVal /\ entryVal = lastGood))
    /\ [][staleData # None => staleData' # None]_vars

\* a refresh succeeded, clear() removed its entry, a second refresh
\* succeeded: entry and snapshot both hold the second catalog
C23_Witness ==
    /\ lockOwner = 0 /\ KeyInCache
    /\ entryVal.call = 2 /\ staleData = entryVal /\ entryVal = lastGood
    /\ \E t \in Threads : pc[t] = "done" /\ op[t] = "clear"


\* every operation started so far is a get(force_refresh=false), no thread
\* has started a second one, and no producer call has raised
Burst ==
    /\ opsStarted = Cardinality({t \in Threads : op[t] # "none"})
    /\ \A t \in Threads : op[t] \in {"none", "get"} /\ ~force[t]
    /\ \A t \in Threads : outcome[t] # "raises"

\* one producer call at most; whoever is in the refresh keeps the others at
\* the lock; whoever has returned, returned the result of the one call
OneCallServesAll ==
    /\ producerCalls <= 1
    /\ \A t, u \in Threads :
          (t # u /\ pc[t] \in {"check", "hit", "fetch", "in_fetcher", "store_cache", "store_stale"})
              => pc[u] \in {"idle", "lock", "done"}
    /\ \A t \in Threads :
          pc[t] = "done"
              => (producerCalls = 1 /\ lastGood # None /\ ret[t] = Return(lastGood))

\* C24 as stated: when the threads call get(force_refresh=false) concurrently
\* on a cache without an entry and the producer succeeds, the producer is
\* called once and every caller returns that one result.
C24_OneProducerCall == Burst => OneCallServesAll

\* what does hold: the same, as long as the entry the refresh stored has not
\* expired under a caller that waited for the lock
OneCallWhileFresh ==
    (/\ Burst
     /\ entryVal = None \/ ttlLeft > 0
     /\ \A t \in Threads : missWhy[t] # "expired")
        => OneCallServesAll

\* every thread called get(): one missed and called the producer, the others
\* hit the entry it stored, and all returned its catalog
AllServedByOneCall ==
    /\ Burst
    /\ \A t \in Threads : pc[t] = "done" /\ ret[t] = Return(lastGood)
    /\ producerCalls = 1
    /\ Cardinality({t \in Threads : outcome[t] = "ok" /\ missWhy[t] = "absent"}) = 1
    /\ Cardinality({t \in Threads : outcome[t] = "none"}) = NumThreads - 1

====
